---- MODULE Spec2Model ----
(***************************************************************************)
(* Solana ETL pipeline: chain client retry loop, block parser, warehouse   *)
(* sink (event upsert + progress cursor), backfill orchestrator (chunked,  *)
(* semaphore-bounded workers) and incremental orchestrator (sequential     *)
(* tailing loop).                                                          *)
(*                                                                         *)
(* Specifications:                                                         *)
(*   Spec        the two orchestrators over a shared sink (mode chosen in  *)
(*               Init), with failing RPC / sink calls and process crashes  *)
(*   SpecChunks  the chunk generation of run_backfill, as a pure function  *)
(*   SpecInsert  insert_events applied to arbitrary batches and stores     *)
(*   SpecRpc     the retry loop of AlchemyRPCClient::rpc_call              *)
(***************************************************************************)
EXTENDS Integers, Sequences, FiniteSets, TLC

VARIABLES
    cfg,      \* Config + command line of the run (fixed after Init)
    chain,    \* the blocks the RPC serves: slot -> block kind (fixed after Init)
    tip,      \* the chain tip getSlot answers with
    store,    \* fact_transactions: set of rows
    meta,     \* etl_metadata: set of [key, value] rows
    orch,     \* run_backfill: pc, spawn index, join index, permits, result
    task,     \* the spawned chunk tasks: chunk index -> task state
    inc,      \* run_incremental / process_incremental state
    pur,      \* SpecChunks / SpecInsert: inputs and results of the pure functions
    rpc       \* SpecRpc: one rpc_call in progress

vars == <<cfg, chain, tip, store, meta, orch, task, inc, pur, rpc>>

-----------------------------------------------------------------------------
(* Bounds of the model *)

\* slots are 0 .. MaxSlot
MaxSlot == 3

\* scaled-down u64::MAX for the chunk arithmetic of run_backfill and the
\* backoff of rpc_call
U64Max == 6

\* max_retries values 0 .. MaxRetriesBound are explored in SpecRpc
MaxRetriesBound == 4

\* batches of up to MaxBatch events are explored in SpecInsert
MaxBatch == 2

Slots == 0 .. MaxSlot

-----------------------------------------------------------------------------
(* Option<T> *)

None == [some |-> FALSE, val |-> 0]

Some(v) == [some |-> TRUE, val |-> v]

UnwrapOr(o, d) == IF o.some THEN o.val ELSE d

Min(a, b) == IF a <= b THEN a ELSE b

RECURSIVE SeqToSet(_)
SeqToSet(s) == IF s = <<>> THEN {} ELSE {Head(s)} \cup SeqToSet(Tail(s))

-----------------------------------------------------------------------------
(* events.rs *)

\* sha256 of "slot:sig:idx:type": a collision-free function of the four fields
GenerateEventId(slot, tx_signature, instruction_index, event_type) ==
    <<slot, tx_signature, instruction_index, event_type>>

NewEventIdFromPayload(slot, block_time, tx_signature, program_id, instruction_index, event_type, raw_payload) ==
    [event_id |-> <<slot, tx_signature, instruction_index, event_type, raw_payload>>,
     slot |-> slot,
     block_time |-> block_time,
     tx_signature |-> tx_signature,
     program_id |-> program_id,
     instruction_index |-> instruction_index,
     event_type |-> event_type,
     raw_payload |-> raw_payload]

NewEvent(slot, block_time, tx_signature, program_id, instruction_index, event_type, raw_payload) ==
    [event_id |-> GenerateEventId(slot, tx_signature, instruction_index, event_type),
     slot |-> slot,
     block_time |-> block_time,
     tx_signature |-> tx_signature,
     program_id |-> program_id,
     instruction_index |-> instruction_index,
     event_type |-> event_type,
     raw_payload |-> raw_payload]

-----------------------------------------------------------------------------
(* parsers.rs.  A raw block is
     [blockTime: Option(Int), transactions: Option(Seq(tx))]
   a transaction is
     [meta: Option([postTokenBalances: Seq([mint: Option(STRING)])]),
      transaction: Option([signatures: Seq(STRING),
                           instructions: Option(Seq([programId: Option(STRING)]))])] *)

TOKEN_PROGRAM_ID == "TokenkegQfeZyiNwAJbNbGKPFXCWuBvf9Ss623VQ5DA"

TOKEN_2022_PROGRAM_ID == "TokenzQdBNbLqP5VEhdkAS6EPFLC1PHnBqCXEpPxuEb"

Ok(v) == [ok |-> TRUE, val |-> v]

Err(kind) == [ok |-> FALSE, val |-> kind]

\* the largest timestamp DateTime::from_timestamp accepts, scaled to the model
MaxTimestamp == MaxSlot + 2

\* block.get("blockTime").and_then(as_i64).ok_or_else(..)?, then
\* DateTime::from_timestamp(timestamp, 0).ok_or_else(..)
ExtractBlockTime(block) ==
    IF ~block.blockTime.some THEN Err("Parse")
    ELSE IF block.blockTime.val > MaxTimestamp THEN Err("Parse")
    ELSE Ok(block.blockTime.val)

ExtractSignature(tx_data) ==
    IF tx_data.signatures # <<>> THEN Ok(Head(tx_data.signatures)) ELSE Err("Parse")

ExtractInstructions(tx_data) ==
    IF tx_data.instructions.some THEN Ok(tx_data.instructions.val) ELSE Err("Parse")

ParseInstructionTokenOnly(instruction, slot, block_time, tx_signature, instruction_index) ==
    <<NewEvent(slot, block_time, tx_signature, instruction.programId, instruction_index,
               IF UnwrapOr(instruction.programId, "unknown") = TOKEN_PROGRAM_ID
               THEN "token_instruction" ELSE "program_instruction",
               instruction)>>

ParseInstruction(instruction, slot, block_time, tx_signature, instruction_index) ==
    LET program_id_str == UnwrapOr(instruction.programId, "unknown")
        event_type == IF program_id_str = TOKEN_PROGRAM_ID \/ program_id_str = TOKEN_2022_PROGRAM_ID
                      THEN "token_instruction"
                      ELSE "program_instruction"
    IN  <<NewEvent(slot, block_time, tx_signature, instruction.programId,
                   instruction_index, event_type, instruction)>>

RECURSIVE ParseInstructionsFrom(_, _, _, _, _)
ParseInstructionsFrom(instructions, i, slot, block_time, tx_signature) ==
    IF i > Len(instructions) THEN <<>>
    ELSE ParseInstruction(instructions[i], slot, block_time, tx_signature, i - 1)
         \o ParseInstructionsFrom(instructions, i + 1, slot, block_time, tx_signature)

RECURSIVE TransfersFrom(_, _, _, _, _)
TransfersFrom(post, i, slot, block_time, tx_signature) ==
    IF i > Len(post) THEN <<>>
    ELSE (IF post[i].mint.some
          THEN <<NewEvent(slot, block_time, tx_signature, Some(TOKEN_PROGRAM_ID),
                          i - 1, "token_transfer", post[i])>>
          ELSE <<>>)
         \o TransfersFrom(post, i + 1, slot, block_time, tx_signature)

ExtractTokenTransfersAsInstructions(tx_meta, slot, block_time, tx_signature) ==
    LET t == TransfersFrom(tx_meta.postTokenBalances, 1, slot, block_time, tx_signature)
    IN  [k \in 1 .. Len(t) |->
            NewEvent(slot, block_time, tx_signature, t[k].program_id,
                     t[k].instruction_index, "token_instruction", t[k].raw_payload)]

ExtractTokenTransfers(tx_meta, slot, block_time, tx_signature) ==
    TransfersFrom(tx_meta.postTokenBalances, 1, slot, block_time, tx_signature)

ParseTransactionTransfersFirst(tx, slot, block_time) ==
    IF ~tx.meta.some \/ ~tx.transaction.some THEN Err("Parse")
    ELSE IF tx.transaction.val.signatures = <<>> \/ ~tx.transaction.val.instructions.some
    THEN Err("Parse")
    ELSE LET sig == Head(tx.transaction.val.signatures)
         IN  Ok(<<NewEvent(slot, block_time, sig, None, -1, "transaction", tx)>>
                \o ExtractTokenTransfers(tx.meta.val, slot, block_time, sig)
                \o ParseInstructionsFrom(tx.transaction.val.instructions.val, 1, slot,
                                         block_time, sig))

ParseTransaction(tx, slot, block_time) ==
    IF ~tx.meta.some THEN Err("Parse")
    ELSE IF ~tx.transaction.some THEN Err("Parse")
    ELSE LET tx_data == tx.transaction.val
             signature == ExtractSignature(tx_data)
             instructions == ExtractInstructions(tx_data)
         IN  IF ~signature.ok THEN Err("Parse")
             ELSE IF ~instructions.ok THEN Err("Parse")
             ELSE Ok(<<NewEvent(slot, block_time, signature.val, None, -1, "transaction", tx)>>
                     \o ParseInstructionsFrom(instructions.val, 1, slot, block_time, signature.val)
                     \o ExtractTokenTransfers(tx.meta.val, slot, block_time, signature.val))

RECURSIVE ParseTransactionsFromStopAtError(_, _, _, _)
ParseTransactionsFromStopAtError(transactions, i, slot, block_time) ==
    IF i > Len(transactions) THEN <<>>
    ELSE LET r == ParseTransaction(transactions[i], slot, block_time)
         IN  IF r.ok
             THEN r.val \o ParseTransactionsFromStopAtError(transactions, i + 1, slot, block_time)
             ELSE <<>>

RECURSIVE ParseTransactionsFrom(_, _, _, _)
ParseTransactionsFrom(transactions, i, slot, block_time) ==
    IF i > Len(transactions) THEN <<>>
    ELSE LET r == ParseTransaction(transactions[i], slot, block_time)
         IN  (IF r.ok THEN r.val ELSE <<>>)
             \o ParseTransactionsFrom(transactions, i + 1, slot, block_time)

ParseBlock(block, slot) ==
    LET block_time == ExtractBlockTime(block)
    IN  IF ~block_time.ok THEN Err("Parse")
        ELSE IF ~block.transactions.some THEN Err("Parse")
        ELSE Ok(ParseTransactionsFrom(block.transactions.val, 1, slot, block_time.val))

RECURSIVE FlattenInstructions(_)
FlattenInstructions(events) ==
    IF events = <<>> THEN <<>>
    ELSE <<Head(events)>> \o FlattenInstructions(Tail(events))

-----------------------------------------------------------------------------
(* warehouse.rs: PostgresWarehouse.  fact_transactions is a set of rows with
   the columns of CanonicalEvent; etl_metadata is a set of [key, value] rows,
   the value being the decimal text of the slot. *)

SlotToStringLastDigit(n) == <<n % 10>>

\* u64::to_string: the decimal digits, most significant first
RECURSIVE SlotToString(_)
SlotToString(n) == IF n < 10 THEN <<n>> ELSE SlotToString(n \div 10) \o <<n % 10>>

\* str::parse::<u64>().ok(): a character outside 0..9 or an empty text gives None
RECURSIVE ParseDigits(_, _)
ParseDigits(s, acc) ==
    IF s = <<>> THEN Some(acc)
    ELSE IF Head(s) \notin 0 .. 9 THEN None
    ELSE ParseDigits(Tail(s), acc * 10 + Head(s))

ParseU64DigitsOnly(s) == ParseDigits(SelectSeq(s, LAMBDA ch : ch \in 0 .. 9), 0)

ParseU64(s) == IF s = <<>> THEN None ELSE ParseDigits(s, 0)

CURSOR_KEY == "last_confirmed_slot"

\* INSERT ... ON CONFLICT (event_id) DO UPDATE SET raw_payload = EXCLUDED.raw_payload
UpsertNoConflict(st, e) == st \cup {e}

Upsert(st, e) ==
    IF \E r \in st : r.event_id = e.event_id
    THEN {IF r.event_id = e.event_id THEN [r EXCEPT !.raw_payload = e.raw_payload] ELSE r : r \in st}
    ELSE st \cup {e}

InsertEventsFirstOnly(st, events) ==
    IF events = <<>> THEN st ELSE Upsert(st, Head(events))

\* the rows after the committed transaction of insert_events(events)
RECURSIVE InsertEvents(_, _)
InsertEvents(st, events) ==
    IF events = <<>> THEN st
    ELSE InsertEvents(Upsert(st, Head(events)), Tail(events))

GetLastSlot(m) ==
    IF \E r \in m : r.key = CURSOR_KEY
    THEN ParseU64((CHOOSE r \in m : r.key = CURSOR_KEY).value)
    ELSE None

UpdateLastSlotDoNothing(m, slot) ==
    IF \E r \in m : r.key = CURSOR_KEY THEN m
    ELSE m \cup {[key |-> CURSOR_KEY, value |-> SlotToString(slot)]}

\* INSERT ... ON CONFLICT (key) DO UPDATE SET value = EXCLUDED.value
UpdateLastSlot(m, slot) ==
    IF \E r \in m : r.key = CURSOR_KEY
    THEN {IF r.key = CURSOR_KEY THEN [r EXCEPT !.value = SlotToString(slot)] ELSE r : r \in m}
    ELSE m \cup {[key |-> CURSOR_KEY, value |-> SlotToString(slot)]}

IsSlotProcessedNever(st, slot) == FALSE

\* SELECT COUNT(*) FROM fact_transactions WHERE slot = $1 ... count > 0
IsSlotProcessed(st, slot) == Cardinality({r \in st : r.slot = slot}) > 0

WarehouseTypes == {"postgres", "bigquery", "snowflake"}

\* create_warehouse: Ok for the two known backends, a Config error otherwise
CreateWarehouse(warehouse_type) ==
    IF warehouse_type \in {"bigquery", "postgres"} THEN Ok(warehouse_type) ELSE Err("Config")

-----------------------------------------------------------------------------
(* backfill.rs: chunk generation of run_backfill (lines 21-29), on integers
   of the width of U64Max.  (start..end).step_by(0) panics; start + chunk_size
   overflows when it exceeds U64Max: a panic with overflow checks, a wrapped
   sum without. *)

RECURSIVE ChunkStarts(_, _, _)
ChunkStarts(start, end_slot, chunk_size) ==
    IF start >= end_slot THEN <<>>
    ELSE <<start>> \o ChunkStarts(start + chunk_size, end_slot, chunk_size)

WrappingAdd(a, b) == (a + b) % (U64Max + 1)

\* a chunk end computed without the min against end_slot
ChunkOfNoMin(start, end_slot, chunk_size) ==
    <<start, WrappingAdd(start, chunk_size)>>

ChunkOf(start, end_slot, chunk_size) ==
    <<start, Min(WrappingAdd(start, chunk_size), end_slot)>>

Chunks(start_slot, end_slot, chunk_size) ==
    LET starts == ChunkStarts(start_slot, end_slot, chunk_size)
    IN  [i \in 1 .. Len(starts) |-> ChunkOf(starts[i], end_slot, chunk_size)]

ChunkOverflows(start_slot, end_slot, chunk_size) ==
    \E s \in SeqToSet(ChunkStarts(start_slot, end_slot, chunk_size)) : s + chunk_size > U64Max

\* the outcomes of lines 21-29: a panic, or the collected chunk vector
ChunkOutcomes(start_slot, end_slot, chunk_size) ==
    IF chunk_size = 0 THEN {[panic |-> TRUE, chunks |-> <<>>]}
    ELSE IF ChunkOverflows(start_slot, end_slot, chunk_size)
         THEN {[panic |-> TRUE, chunks |-> <<>>],
               [panic |-> FALSE, chunks |-> Chunks(start_slot, end_slot, chunk_size)]}
         ELSE {[panic |-> FALSE, chunks |-> Chunks(start_slot, end_slot, chunk_size)]}

-----------------------------------------------------------------------------
(* Values of the variables a specification does not use *)

IdleCfg == [mode |-> "idle"]

IdleOrch == [pc |-> "idle"]

IdleInc == [pc |-> "idle"]

IdlePur == [op |-> "idle"]

IdleRpc == [pc |-> "idle"]

OrchestratorsIdle ==
    /\ cfg = IdleCfg
    /\ chain = <<>>
    /\ tip = 0
    /\ meta = {}
    /\ orch = IdleOrch
    /\ task = <<>>
    /\ inc = IdleInc

-----------------------------------------------------------------------------
(* SpecChunks: lines 21-29 of run_backfill on every start_slot, end_slot and
   chunk_size of the scaled width *)

InitChunks ==
    /\ OrchestratorsIdle
    /\ store = {}
    /\ rpc = IdleRpc
    /\ \E S \in 0 .. U64Max, E \in 0 .. U64Max, C \in 0 .. U64Max :
          pur = [op |-> "chunks", start_slot |-> S, end_slot |-> E, chunk_size |-> C,
                 done |-> FALSE, out |-> [panic |-> FALSE, chunks |-> <<>>]]

GenerateChunks ==
    /\ pur.op = "chunks"
    /\ ~pur.done
    /\ \E o \in ChunkOutcomes(pur.start_slot, pur.end_slot, pur.chunk_size) :
          pur' = [pur EXCEPT !.done = TRUE, !.out = o]
    /\ UNCHANGED <<cfg, chain, tip, store, meta, orch, task, inc, rpc>>

NextChunks == GenerateChunks

SpecChunks == InitChunks /\ [][NextChunks]_vars

\* the slots of a half-open chunk
ChunkSlots(c) == {s \in 0 .. U64Max : c[1] <= s /\ s < c[2]}

\* pairwise disjoint, union [S, E), each of length at most C, the last ending at E
IsPartition(ch, S, E, C) ==
    /\ \A i, j \in DOMAIN ch : i # j => ChunkSlots(ch[i]) \cap ChunkSlots(ch[j]) = {}
    /\ UNION {ChunkSlots(ch[i]) : i \in DOMAIN ch} = {s \in 0 .. U64Max : S <= s /\ s < E}
    /\ \A i \in DOMAIN ch : ch[i][1] < ch[i][2] /\ ch[i][2] - ch[i][1] <= C
    /\ \A i \in DOMAIN ch : i < Len(ch) => ch[i][2] = ch[i + 1][1]
    /\ (S >= E) <=> (Len(ch) = 0)
    /\ S < E => ch[Len(ch)][2] = E


\* C5 (as stated): for every S, E and chunk size C the chunks generated by
\* run_backfill are pairwise disjoint half-open ranges whose union is [S, E),
\* each of length at most C, the last one ending at E, none when S >= E.
C5_AnyChunkSize ==
    pur.op = "chunks" /\ pur.done
    => /\ ~pur.out.panic
       /\ IsPartition(pur.out.chunks, pur.start_slot, pur.end_slot, pur.chunk_size)

\* no chunk start plus C exceeds the largest integer of the width
NoChunkOverflow == ~ChunkOverflows(pur.start_slot, pur.end_slot, pur.chunk_size)

\* C5 (amended): for every S, E and chunk size C >= 1 for which start + C
\* cannot overflow, the generated chunks are pairwise disjoint half-open
\* ranges whose union is [S, E), each of length at most C, the last one ending
\* at E, and there is no chunk when S >= E.
C5_ChunksPartition ==
    pur.op = "chunks" /\ pur.done /\ pur.chunk_size >= 1 /\ NoChunkOverflow
    => /\ ~pur.out.panic
       /\ IsPartition(pur.out.chunks, pur.start_slot, pur.end_slot, pur.chunk_size)

\* C5 witness: a range cut into several chunks, the last one shorter than C
C5_Witness ==
    /\ pur.op = "chunks" /\ pur.done /\ ~pur.out.panic
    /\ pur.chunk_size >= 2 /\ NoChunkOverflow
    /\ Len(pur.out.chunks) >= 2
    /\ LET last == pur.out.chunks[Len(pur.out.chunks)]
       IN  last[2] - last[1] < pur.chunk_size

-----------------------------------------------------------------------------
(* SpecInsert: insert_events(B) applied twice to every small store and batch *)

InsertSlots == {0, 1}

InsertPayloads == {"p1", "p2"}

\* a few logical events, each with every payload
InsertUniverse ==
    {NewEvent(s, 0, "sigA", None, -1, "transaction", p) : s \in InsertSlots, p \in InsertPayloads}
    \cup {NewEvent(0, 0, "sigA", Some("prog"), 0, "program_instruction", p) : p \in InsertPayloads}

\* the table has a primary key on event_id
UniqueIds(st) == \A r1, r2 \in st : r1.event_id = r2.event_id => r1 = r2

BatchesUpTo(n) == UNION {[1 .. k -> InsertUniverse] : k \in 0 .. n}

InitInsert ==
    /\ OrchestratorsIdle
    /\ rpc = IdleRpc
    /\ store \in {st \in SUBSET InsertUniverse : UniqueIds(st)}
    /\ \E B \in BatchesUpTo(MaxBatch) :
          pur = [op |-> "insert", batch |-> B, calls |-> 0, before |-> store, once |-> {}]

\* one successful insert_events(batch) call
InsertBatch ==
    /\ pur.op = "insert"
    /\ pur.calls < 2
    /\ store' = InsertEvents(store, pur.batch)
    /\ pur' = [pur EXCEPT !.calls = @ + 1, !.once = IF pur.calls = 0 THEN store' ELSE @]
    /\ UNCHANGED <<cfg, chain, tip, meta, orch, task, inc, rpc>>

NextInsert == InsertBatch

SpecInsert == InitInsert /\ [][NextInsert]_vars

\* the payload of the last event of the batch with this id
RECURSIVE LatestPayload(_, _, _)
LatestPayload(batch, id, dflt) ==
    IF batch = <<>> THEN dflt
    ELSE LatestPayload(Tail(batch), id,
                       IF Head(batch).event_id = id THEN Head(batch).raw_payload ELSE dflt)

\* C4: insert_events(B) followed by insert_events(B) leaves the store equal to
\* the store after a single insert_events(B): one row per distinct event_id,
\* every event_id of B present and carrying the payload of the latest insert,
\* and every row whose event_id is not in B as it was.
C4_InsertIdempotent ==
    pur.op = "insert" /\ pur.calls = 2
    => /\ store = pur.once
       /\ UniqueIds(store)
       /\ \A e \in SeqToSet(pur.batch) :
             \E r \in store : /\ r.event_id = e.event_id
                              /\ r.raw_payload = LatestPayload(pur.batch, e.event_id, e.raw_payload)
       /\ \A r \in pur.before :
             (\A e \in SeqToSet(pur.batch) : e.event_id # r.event_id) => r \in store
       /\ \A r \in store :
             r \in pur.before \/ \E e \in SeqToSet(pur.batch) : e.event_id = r.event_id

\* C4 witness: a batch inserted twice that overwrote a stored payload and
\* itself carried one event_id twice with different payloads
C4_Witness ==
    /\ pur.op = "insert" /\ pur.calls = 2
    /\ Len(pur.batch) = 2
    /\ pur.batch[1].event_id = pur.batch[2].event_id
    /\ pur.batch[1].raw_payload # pur.batch[2].raw_payload
    /\ \E r \in pur.before : r.event_id = pur.batch[1].event_id /\ r \notin store

-----------------------------------------------------------------------------
(* rpc.rs: AlchemyRPCClient::rpc_call, one call against a server whose
   answers are chosen freely *)

ErrorCodes == {429, 500, 599, 499, 600, -32005}

\* what one HTTP POST comes back with: no response at all (send or json
\* failed), or an RPCResponse with optional error and optional result
Responses ==
    {[transport |-> FALSE, error |-> e, result |-> r] :
        e \in {None} \cup {Some(c) : c \in ErrorCodes}, r \in {None, Some(1)}}
    \cup {[transport |-> TRUE, error |-> None, result |-> None]}

IsRetryableClientErrors(code) == code = 429 \/ (code >= 400 /\ code < 600)

\* error.code == 429 || (error.code >= 500 && error.code < 600)
IsRetryable(code) == code = 429 \/ (code >= 500 /\ code < 600)

RetryAllowedInclusive(retries, max_retries) == retries <= max_retries

\* if retries < self.config.max_retries
RetryAllowed(retries, max_retries) == retries < max_retries

\* Duration::from_secs(2_u64.pow(retries)) in a build without overflow checks:
\* the power wraps around
Backoff(retries) == (2 ^ retries) % (U64Max + 1)

InitRpc ==
    /\ OrchestratorsIdle
    /\ store = {}
    /\ pur = IdlePur
    /\ \E m \in 0 .. MaxRetriesBound :
          rpc = [pc |-> "limiter", max_retries |-> m, retries |-> 0, requests |-> 0,
                 tokens |-> 0, slept |-> <<>>, all_retryable |-> TRUE,
                 last |-> [transport |-> FALSE, error |-> None, result |-> None],
                 result |-> Ok(None)]

\* self.rate_limiter.until_ready().await
RpcUntilReady ==
    /\ rpc.pc = "limiter"
    /\ rpc' = [rpc EXCEPT !.pc = "send", !.tokens = @ + 1]
    /\ UNCHANGED <<cfg, chain, tip, store, meta, orch, task, inc, pur>>

\* one pass of the loop body up to its sleep, continue or return
RpcRequest ==
    /\ rpc.pc = "send"
    /\ \E resp \in Responses :
          LET sent == [rpc EXCEPT !.requests = @ + 1, !.last = resp,
                                  !.all_retryable = @ /\ ~resp.transport /\ resp.error.some
                                                      /\ IsRetryable(resp.error.val)]
          IN  rpc' =
                IF resp.transport
                THEN [sent EXCEPT !.pc = "done", !.result = Err("Http")]
                ELSE IF resp.error.some
                THEN IF IsRetryable(resp.error.val) /\ RetryAllowed(rpc.retries, rpc.max_retries)
                     THEN [sent EXCEPT !.pc = "sleep"]
                     ELSE [sent EXCEPT !.pc = "done", !.result = Err("RPC")]
                ELSE [sent EXCEPT !.pc = "done", !.result = Ok(resp.result)]
    /\ UNCHANGED <<cfg, chain, tip, store, meta, orch, task, inc, pur>>

\* sleep(backoff).await; retries += 1; continue.  A power that does not fit
\* u64 panics in a build with overflow checks and wraps in one without.
RpcSleep ==
    /\ rpc.pc = "sleep"
    /\ \E overflow_panics \in {FALSE, 2 ^ rpc.retries > U64Max} :
          rpc' = IF overflow_panics THEN [rpc EXCEPT !.pc = "panicked"]
                 ELSE [rpc EXCEPT !.pc = "send", !.retries = @ + 1,
                                  !.slept = Append(@, Backoff(rpc.retries))]
    /\ UNCHANGED <<cfg, chain, tip, store, meta, orch, task, inc, pur>>

NextRpc == RpcUntilReady \/ RpcRequest \/ RpcSleep

SpecRpc == InitRpc /\ [][NextRpc]_vars

\* C10 (as stated): when every response of a call carries a retryable error
\* code, the client sends at most max_retries requests in total.
C10_AtMostMaxRetriesRequests ==
    rpc.pc # "idle" /\ rpc.all_retryable => rpc.requests <= rpc.max_retries

\* C10 (amended): when every response of a call carries a retryable error code
\* (429 or 500-599), the client sends at most max_retries + 1 requests (the
\* first attempt and max_retries retries), and the call ends only after
\* exactly max_retries + 1 requests, returning an RPC error.
C10_RetriesBounded ==
    rpc.pc # "idle" /\ rpc.all_retryable
    => /\ rpc.requests <= rpc.max_retries + 1
       /\ rpc.pc = "done" => rpc.requests = rpc.max_retries + 1 /\ rpc.result = Err("RPC")

\* C10 witness: a call with retries configured that gave up on retryable errors
C10_Witness ==
    /\ rpc.pc = "done" /\ rpc.all_retryable
    /\ rpc.max_retries >= 2 /\ rpc.retries = rpc.max_retries
    /\ rpc.result = Err("RPC")

\* C11: a response carrying an error code other than 429 or 500-599 ends the
\* call at once with an RPC error and no backoff sleep after it (one request
\* and no sleep at all when it answers the first request: every request but the
\* last was answered by a retried code); a 429 or 5xx code is followed by a
\* backoff sleep and another request exactly as long as retries remain
\* (retries < max_retries), and ends the call with an RPC error otherwise.
C11_NonRetryableEndsCall ==
    rpc.pc \in {"sleep", "done"} /\ ~rpc.last.transport /\ rpc.last.error.some
    => LET code == rpc.last.error.val
           retryable == code = 429 \/ code \in 500 .. 599
       IN  /\ rpc.requests = rpc.retries + 1
           /\ Len(rpc.slept) = rpc.retries
           /\ ~retryable => rpc.pc = "done" /\ rpc.result = Err("RPC")
           /\ retryable /\ rpc.retries < rpc.max_retries => rpc.pc = "sleep"
           /\ retryable /\ rpc.retries >= rpc.max_retries
              => rpc.pc = "done" /\ rpc.result = Err("RPC")

\* C11 witness: the first response carries a non-retryable code although
\* retries were configured: one request, no sleep, an RPC error
C11_Witness ==
    /\ rpc.pc = "done" /\ rpc.max_retries >= 2
    /\ rpc.last.error.some /\ rpc.last.error.val \in {499, 600, -32005}
    /\ rpc.requests = 1 /\ rpc.slept = <<>>
    /\ rpc.result = Err("RPC")

-----------------------------------------------------------------------------
(* Spec: the chain served by the RPC.  Every slot is a skipped slot (getBlock
   answers null), a block parse_block rejects, or a block with transactions. *)

BlockKinds == {"null", "bad", "one", "two"}

TxPlain == [meta |-> Some([postTokenBalances |-> <<>>]),
            transaction |-> Some([signatures |-> <<"sigA">>, instructions |-> Some(<<>>)])]

TxToken == [meta |-> Some([postTokenBalances |-> <<>>]),
            transaction |-> Some([signatures |-> <<"sigB">>,
                                  instructions |-> Some(<<[programId |-> Some(TOKEN_PROGRAM_ID)]>>)])]

TxNoMeta == [meta |-> None,
             transaction |-> Some([signatures |-> <<"sigC">>, instructions |-> Some(<<>>)])]

\* the three blocks parse_block rejects: a timestamp out of range, no
\* transactions array, no blockTime
BadBlock(slot) ==
    IF slot % 3 = 0 THEN [blockTime |-> Some(MaxTimestamp + 1), transactions |-> Some(<<TxPlain>>)]
    ELSE IF slot % 3 = 1 THEN [blockTime |-> Some(slot), transactions |-> None]
    ELSE [blockTime |-> None, transactions |-> Some(<<TxPlain>>)]

\* the getBlock result of a slot that is not skipped
RawBlock(kind, slot) ==
    IF kind = "bad" THEN BadBlock(slot)
    ELSE IF kind = "one" THEN [blockTime |-> Some(slot), transactions |-> Some(<<TxPlain>>)]
    ELSE [blockTime |-> Some(slot), transactions |-> Some(<<TxToken, TxNoMeta>>)]

ChainPattern == <<"two", "null", "bad", "one">>

\* the pattern repeated along the slots, starting at its k-th place
Chain(k) == [s \in Slots |-> ChainPattern[((s + k) % 4) + 1]]

Chains == {Chain(k) : k \in {0, 1}}

\* what rpc_call("getBlock") returns when the call succeeds:
\* Ok(rpc_response.result.unwrap_or(Value::Null)), Null written None
RpcCallResult(slot) ==
    Ok(IF chain[slot] = "null" THEN None ELSE Some(RawBlock(chain[slot], slot)))

GetBlockNullIsError(result) ==
    IF ~result.ok THEN result
    ELSE IF ~result.val.some THEN Err("RPC")
    ELSE Ok(Some(result.val.val))

\* get_block after rpc_call(..).await?: if result.is_null() { return Ok(None) }
\* Ok(Some(result))
GetBlock(result) ==
    IF ~result.ok THEN result
    ELSE IF ~result.val.some THEN Ok(None)
    ELSE Ok(Some(result.val.val))

\* get_block(slot) when the RPC call succeeds
GetBlockResult(slot) == GetBlock(RpcCallResult(slot))

PropagatedWithParseErrors(fails, b, parsed) ==
    IF fails \/ ~b.ok THEN "rpc"
    ELSE IF b.val.some /\ ~parsed.ok THEN "parse" ELSE "none"

\* the error that leaves the slot loop with `?` at the fetch: the Err of
\* get_block only; the Err arm of parse_block logs a warning and falls through
\* to slot += 1
Propagated(fails, b, parsed) ==
    IF fails \/ ~b.ok THEN "rpc" ELSE "none"

\* the events the orchestrators append to the batch for a fetched slot
\* (parse_block then flatten_instructions; nothing when the parse fails)
ParsedEvents(block, slot) ==
    LET r == ParseBlock(block, slot)
    IN  IF r.ok THEN FlattenInstructions(r.val) ELSE <<>>

SlotEvents(slot) ==
    LET b == GetBlockResult(slot)
    IN  IF b.ok /\ b.val.some THEN ParsedEvents(b.val.val, slot) ELSE <<>>

\* the rows a complete load of the slots of S leaves in fact_transactions
ExpectedRows(S) == UNION {SeqToSet(SlotEvents(s)) : s \in S}

-----------------------------------------------------------------------------
(* The slot loop shared by process_chunk and process_incremental: where the
   worker stands after a step, as the name of its next await point *)

LoopHeadNoFinalFlush(slot, end_slot, batch, first) ==
    IF slot < end_slot THEN first ELSE "final_cursor"

\* while slot < end_slot { ... }  and the code after the loop
LoopHead(slot, end_slot, batch, first) ==
    IF slot < end_slot THEN first
    ELSE IF batch # <<>> THEN "final_flush" ELSE "final_cursor"

\* (slot - start_slot) % checkpoint_interval == 0, evaluated after slot += 1
CheckpointDue(slot, start_slot, checkpoint_interval) ==
    (slot - start_slot) % checkpoint_interval = 0

CheckpointPcNoFlush(batch) == "cp_cursor"

\* if !batch.is_empty() { insert_events } ; update_last_slot
CheckpointPc(batch) == IF batch # <<>> THEN "cp_flush" ELSE "cp_cursor"

AfterSlotCursorFirst(slot, start_slot, end_slot, batch, checkpoint_interval, first) ==
    IF checkpoint_interval = 0 THEN "panicked"
    ELSE IF CheckpointDue(slot, start_slot, checkpoint_interval) THEN "cp_cursor"
    ELSE IF slot < end_slot THEN first
    ELSE IF batch # <<>> THEN "final_flush" ELSE "final_cursor"

\* slot += 1 and the checkpoint test; slot is the incremented value.  A zero
\* checkpoint_interval makes the remainder panic.
AfterSlot(slot, start_slot, end_slot, batch, checkpoint_interval, first) ==
    IF checkpoint_interval = 0 THEN "panicked"
    ELSE IF CheckpointDue(slot, start_slot, checkpoint_interval) THEN CheckpointPc(batch)
    ELSE LoopHead(slot, end_slot, batch, first)

\* if batch.len() >= config.etl.batch_size
BatchFull(batch, batch_size) == Len(batch) >= batch_size

-----------------------------------------------------------------------------
(* Spec, backfill mode: run_backfill and its spawned chunk tasks *)

Terminal == {"ok", "failed", "panicked"}

\* a failed call that is logged and skipped: the worker goes on with the next slot
FailedContinues(t, kind) ==
    [t EXCEPT !.err = kind, !.slot = @ + 1,
              !.pc = IF t.slot + 1 < t.end_slot THEN "check" ELSE "final_cursor"]

\* process_chunk returns Err(..) through `?`: the task logs "Failed chunk" and ends
Failed(t, kind) == [t EXCEPT !.pc = "failed", !.err = kind]

\* the task unwinds: expect(..) on the sink, or a remainder by zero
Panicked(t, kind) == [t EXCEPT !.pc = "panicked", !.err = kind]

IsJoinErrorAnyFailure(t) == t.pc # "ok"

\* handle.await is Err(JoinError) exactly for a task that panicked
IsJoinError(t) == t.pc = "panicked"

\* slots already loaded by an earlier run in some initial states
Preloaded == {0, MaxSlot}

\* the runs explored: two-slot chunks under every setting, one-slot chunks
\* (more chunks than workers) with two workers, and the whole range as one chunk
BackfillConfigs ==
    {c \in [mode : {"backfill"},
            start_slot : {0},
            end_slot : {MaxSlot + 1},
            workers : {1, 2},
            batch_size : {1, 3},
            checkpoint_interval : {0, 1, 2},
            backfill_chunk_size : {0, 1, 2, MaxSlot + 1},
            warehouse_type : {"postgres", "snowflake"},
            initial_cursor : {None}] :
        /\ c.backfill_chunk_size = 1
           => c.workers = 2 /\ c.batch_size = 1 /\ c.checkpoint_interval = 1
        /\ c.backfill_chunk_size = MaxSlot + 1 => c.workers = 1}

\* a rerun over a range in which an earlier run stored slot 1 only: one chunk,
\* a checkpoint every second slot
RerunConfigs == {c \in BackfillConfigs : /\ c.backfill_chunk_size = MaxSlot + 1
                                         /\ c.checkpoint_interval = 2
                                         /\ c.warehouse_type = "postgres"}

InitBackfill ==
    /\ \/ /\ cfg \in BackfillConfigs
          /\ chain \in Chains
          /\ store \in {{}, ExpectedRows(Preloaded)}
       \/ /\ cfg \in RerunConfigs
          /\ chain = Chain(2)
          /\ store = ExpectedRows({1})
    /\ tip = MaxSlot
    /\ meta = {}
    /\ orch = [pc |-> "start", chunks |-> <<>>, next |-> 1, joined |-> 1,
               permits |-> cfg.workers, result |-> "none"]
    /\ task = <<>>
    /\ inc = IdleInc
    /\ pur = IdlePur
    /\ rpc = IdleRpc

NewTask(chunk) ==
    [pc |-> "pending", start_slot |-> chunk[1], end_slot |-> chunk[2], slot |-> chunk[1],
     batch |-> <<>>, err |-> "none", fetched |-> <<>>, writes |-> <<>>, inserted |-> <<>>]

\* lines 19-35: the chunk vector and the semaphore
BackfillStart ==
    /\ orch.pc = "start"
    /\ \E o \in ChunkOutcomes(cfg.start_slot, cfg.end_slot, cfg.backfill_chunk_size) :
          IF o.panic
          THEN /\ orch' = [orch EXCEPT !.pc = "panicked"]
               /\ task' = task
          ELSE /\ orch' = [orch EXCEPT !.chunks = o.chunks,
                                       !.pc = IF Len(o.chunks) = 0 THEN "joining" ELSE "spawning"]
               /\ task' = [i \in 1 .. Len(o.chunks) |-> NewTask(o.chunks[i])]
    /\ UNCHANGED <<cfg, chain, tip, store, meta, inc, pur, rpc>>

AcquireFree(permits) == permits

\* semaphore.acquire_owned(): one permit taken
Acquire(permits) == permits - 1

\* lines 37-60: acquire a permit, then spawn the task of the next chunk
BackfillSpawn ==
    /\ orch.pc = "spawning"
    /\ orch.permits > 0
    /\ orch' = [orch EXCEPT !.permits = Acquire(@), !.next = @ + 1,
                            !.pc = IF orch.next = Len(orch.chunks) THEN "joining" ELSE "spawning"]
    /\ task' = [task EXCEPT ![orch.next].pc = "spawned"]
    /\ UNCHANGED <<cfg, chain, tip, store, meta, inc, pur, rpc>>

\* lines 63-65: handle.await of the next handle; a panicked task is a JoinError
BackfillJoin ==
    /\ orch.pc = "joining"
    /\ orch.joined <= Len(orch.chunks)
    /\ task[orch.joined].pc \in Terminal
    /\ orch' = IF IsJoinError(task[orch.joined])
               THEN [orch EXCEPT !.pc = "returned", !.result = "err"]
               ELSE [orch EXCEPT !.joined = @ + 1]
    /\ UNCHANGED <<cfg, chain, tip, store, meta, task, inc, pur, rpc>>

\* lines 67-68
BackfillReturn ==
    /\ orch.pc = "joining"
    /\ orch.joined > Len(orch.chunks)
    /\ orch' = [orch EXCEPT !.pc = "returned", !.result = "ok"]
    /\ UNCHANGED <<cfg, chain, tip, store, meta, task, inc, pur, rpc>>

ReleasedNever(o, t) == o

\* the tasks run while run_backfill has not returned (its return ends the process)
TasksAlive == orch.pc \in {"spawning", "joining"}

\* drop(_permit) when the task ends, by return or by unwinding
Released(o, t) == IF t.pc \in Terminal THEN [o EXCEPT !.permits = @ + 1] ELSE o

FlushedKeepsBatch(w) == [w EXCEPT !.inserted = @ \o w.batch]

\* insert_events(batch.clone()).await? returned Ok, then batch.clear(); the
\* batches handed to the sink are recorded in `inserted`
Flushed(w) == [w EXCEPT !.inserted = @ \o w.batch, !.batch = <<>>]

\* the task after slot += 1 (line 116) and the checkpoint test (line 119)
Advanced(t, batch) ==
    LET pc == AfterSlot(t.slot + 1, t.start_slot, t.end_slot, batch,
                        cfg.checkpoint_interval, "check")
    IN  IF pc = "panicked" THEN Panicked([t EXCEPT !.slot = @ + 1, !.batch = batch], "rem_zero")
        ELSE [t EXCEPT !.slot = @ + 1, !.batch = batch, !.pc = pc]

\* lines 45-48: create_warehouse(..).expect(..) and connect (a no-op that returns Ok)
TaskCreateWarehouse(i) ==
    /\ TasksAlive
    /\ task[i].pc = "spawned"
    /\ LET t == IF CreateWarehouse(cfg.warehouse_type).ok
                THEN [task[i] EXCEPT !.pc = LoopHead(task[i].slot, task[i].end_slot,
                                                        task[i].batch, "check")]
                ELSE Panicked(task[i], "expect")
       IN  /\ task' = [task EXCEPT ![i] = t]
           /\ orch' = Released(orch, t)
    /\ UNCHANGED <<cfg, chain, tip, store, meta, inc, pur, rpc>>

\* lines 84-87: is_slot_processed(slot).await?
TaskIsSlotProcessed(i) ==
    /\ TasksAlive
    /\ task[i].pc = "check"
    /\ \E fails \in BOOLEAN :
          LET t == IF fails THEN Failed(task[i], "db")
                   ELSE IF IsSlotProcessed(store, task[i].slot)
                   THEN [task[i] EXCEPT !.slot = @ + 1,
                                        !.pc = LoopHead(task[i].slot + 1, task[i].end_slot,
                                                        task[i].batch, "check")]
                   ELSE [task[i] EXCEPT !.pc = "fetch"]
          IN  /\ task' = [task EXCEPT ![i] = t]
              /\ orch' = Released(orch, t)
    /\ UNCHANGED <<cfg, chain, tip, store, meta, inc, pur, rpc>>

\* lines 90-116: get_block(slot).await?, parse_block, batch.extend; up to the
\* batch-size insert or, without one, through slot += 1 and the checkpoint test
TaskGetBlock(i) ==
    /\ TasksAlive
    /\ task[i].pc = "fetch"
    /\ \E fails \in BOOLEAN :
          LET b == GetBlockResult(task[i].slot)
              parsed == IF b.ok /\ b.val.some THEN ParseBlock(b.val.val, task[i].slot)
                        ELSE Err("None")
              batch == IF parsed.ok THEN task[i].batch \o FlattenInstructions(parsed.val)
                       ELSE task[i].batch
              seen == [task[i] EXCEPT !.fetched = Append(@, task[i].slot)]
              e == Propagated(fails, b, parsed)
              t == IF e # "none" THEN Failed(task[i], e)
                   ELSE IF parsed.ok /\ BatchFull(batch, cfg.batch_size)
                   THEN [seen EXCEPT !.batch = batch, !.pc = "flush"]
                   ELSE Advanced(seen, batch)
          IN  /\ task' = [task EXCEPT ![i] = t]
              /\ orch' = Released(orch, t)
    /\ UNCHANGED <<cfg, chain, tip, store, meta, inc, pur, rpc>>

\* lines 101-102 then 116-119: insert_events(batch.clone()).await?; batch.clear()
\* (an empty batch returns Ok without touching the sink)
TaskFlush(i) ==
    /\ TasksAlive
    /\ task[i].pc = "flush"
    /\ \E fails \in {FALSE, task[i].batch # <<>>} :
          LET t == IF fails THEN Failed(task[i], "db")
                   ELSE Advanced(Flushed(task[i]), Flushed(task[i]).batch)
          IN  /\ task' = [task EXCEPT ![i] = t]
              /\ orch' = Released(orch, t)
              /\ store' = IF fails THEN store ELSE InsertEvents(store, task[i].batch)
    /\ UNCHANGED <<cfg, chain, tip, meta, inc, pur, rpc>>

\* lines 120-123: the insert of a checkpoint
TaskCheckpointFlush(i) ==
    /\ TasksAlive
    /\ task[i].pc = "cp_flush"
    /\ \E fails \in BOOLEAN :
          LET t == IF fails THEN Failed(task[i], "db")
                   ELSE [Flushed(task[i]) EXCEPT !.pc = "cp_cursor"]
          IN  /\ task' = [task EXCEPT ![i] = t]
              /\ orch' = Released(orch, t)
              /\ store' = IF fails THEN store ELSE InsertEvents(store, task[i].batch)
    /\ UNCHANGED <<cfg, chain, tip, meta, inc, pur, rpc>>

\* line 124: update_last_slot(slot - 1).await?
TaskCheckpointCursor(i) ==
    /\ TasksAlive
    /\ task[i].pc = "cp_cursor"
    /\ \E fails \in BOOLEAN :
          LET t == IF fails THEN Failed(task[i], "db")
                   ELSE [task[i] EXCEPT !.writes = Append(@, task[i].slot - 1),
                                        !.pc = LoopHead(task[i].slot, task[i].end_slot,
                                                        task[i].batch, "check")]
          IN  /\ task' = [task EXCEPT ![i] = t]
              /\ orch' = Released(orch, t)
              /\ meta' = IF fails THEN meta ELSE UpdateLastSlot(meta, task[i].slot - 1)
    /\ UNCHANGED <<cfg, chain, tip, store, inc, pur, rpc>>

\* lines 130-132: insert_events(batch).await? of the remaining batch
TaskFinalFlush(i) ==
    /\ TasksAlive
    /\ task[i].pc = "final_flush"
    /\ \E fails \in BOOLEAN :
          LET t == IF fails THEN Failed(task[i], "db")
                   ELSE [Flushed(task[i]) EXCEPT !.pc = "final_cursor"]
          IN  /\ task' = [task EXCEPT ![i] = t]
              /\ orch' = Released(orch, t)
              /\ store' = IF fails THEN store ELSE InsertEvents(store, task[i].batch)
    /\ UNCHANGED <<cfg, chain, tip, meta, inc, pur, rpc>>

\* line 135: update_last_slot(end_slot - 1).await?, then Ok(())
TaskFinalCursor(i) ==
    /\ TasksAlive
    /\ task[i].pc = "final_cursor"
    /\ \E fails \in BOOLEAN :
          LET t == IF fails THEN Failed(task[i], "db")
                   ELSE [task[i] EXCEPT !.writes = Append(@, task[i].end_slot - 1),
                                        !.pc = "ok"]
          IN  /\ task' = [task EXCEPT ![i] = t]
              /\ orch' = Released(orch, t)
              /\ meta' = IF fails THEN meta ELSE UpdateLastSlot(meta, task[i].end_slot - 1)
    /\ UNCHANGED <<cfg, chain, tip, store, inc, pur, rpc>>

-----------------------------------------------------------------------------
(* Spec, incremental mode: run_incremental and process_incremental *)

IncrementalConfigs ==
    [mode : {"incremental"},
     start_slot : {0},
     end_slot : {0},
     workers : {1},
     batch_size : {1, 3},
     checkpoint_interval : {0, 1, 2},
     backfill_chunk_size : {2},
     warehouse_type : {"postgres", "snowflake"},
     initial_cursor : {None, Some(0), Some(1)}]

NewProcess ==
    [pc |-> "init", chain_tip |-> 0, last_slot |-> 0, start_slot |-> 0, end_slot |-> 0,
     processed_slot |-> 0, batch |-> <<>>, result |-> "none", err |-> "none",
     fetched |-> <<>>, crashed_at |-> "none", inserted |-> <<>>, seen |-> {}]

\* the sink as an earlier run left it: no cursor and no rows, or a cursor with
\* the rows of every slot up to it
InitIncremental ==
    /\ cfg \in IncrementalConfigs
    /\ chain \in Chains
    /\ tip \in Slots
    /\ store = IF cfg.initial_cursor.some THEN ExpectedRows(0 .. cfg.initial_cursor.val) ELSE {}
    /\ meta = IF cfg.initial_cursor.some THEN UpdateLastSlot({}, cfg.initial_cursor.val) ELSE {}
    /\ orch = IdleOrch
    /\ task = <<>>
    /\ inc = NewProcess
    /\ pur = IdlePur
    /\ rpc = IdleRpc

\* process_incremental returned Ok: back in the loop of run_incremental, before its sleep
CycleOk(r) == [r EXCEPT !.pc = "sleep", !.result = "ok", !.batch = <<>>]

IncAdvancedSkipsSlot(r, batch) ==
    LET pc == AfterSlot(r.processed_slot + 2, r.start_slot, r.end_slot, batch,
                        cfg.checkpoint_interval, "fetch")
    IN  [r EXCEPT !.processed_slot = @ + 2, !.batch = batch, !.pc = pc]

\* processed_slot += 1 (line 83) and the checkpoint test (line 86)
IncAdvanced(r, batch) ==
    LET pc == AfterSlot(r.processed_slot + 1, r.start_slot, r.end_slot, batch,
                        cfg.checkpoint_interval, "fetch")
    IN  [r EXCEPT !.processed_slot = @ + 1, !.batch = batch, !.pc = pc]

CycleFailedReturns(r, kind) ==
    [r EXCEPT !.pc = "returned", !.result = "err", !.err = kind, !.batch = <<>>]

\* a failed call that is logged and skipped: the cycle goes on with the next slot
CycleFailedContinues(r, kind) ==
    IF kind = "get_block" THEN [IncAdvanced(r, r.batch) EXCEPT !.err = kind]
    ELSE [r EXCEPT !.pc = "sleep", !.result = "err", !.err = kind, !.batch = <<>>]

\* process_incremental returned Err(..) through `?`: run_incremental logs
\* "Incremental run failed" and goes to its sleep
CycleFailed(r, kind) == [r EXCEPT !.pc = "sleep", !.result = "err", !.err = kind, !.batch = <<>>]

\* run_incremental lines 14-15: create_warehouse(..)?; connect().await?
IncCreateWarehouse ==
    /\ inc.pc = "init"
    /\ inc' = IF CreateWarehouse(cfg.warehouse_type).ok
              THEN [inc EXCEPT !.pc = "get_slot"]
              ELSE [inc EXCEPT !.pc = "returned", !.result = "err"]
    /\ UNCHANGED <<cfg, chain, tip, store, meta, orch, task, pur, rpc>>

\* line 40: rpc_client.get_slot().await?
IncGetSlot ==
    /\ inc.pc = "get_slot"
    /\ \E fails \in BOOLEAN :
          inc' = IF fails THEN CycleFailed(inc, "get_slot")
                 ELSE [inc EXCEPT !.pc = "get_last_slot", !.chain_tip = tip,
                                  !.result = "none", !.err = "none", !.fetched = <<>>,
                                  !.inserted = <<>>]
    /\ UNCHANGED <<cfg, chain, tip, store, meta, orch, task, pur, rpc>>

NoNewSlotsStrict(chain_tip, last_slot) == chain_tip < last_slot

\* line 45: if chain_tip <= last_slot { return Ok(()) }
NoNewSlots(chain_tip, last_slot) == chain_tip <= last_slot

StartSlotSkipsOne(last_slot) == last_slot + 2

\* line 50: let start_slot = last_slot + 1
StartSlot(last_slot) == last_slot + 1

\* lines 43-59: get_last_slot().await?.unwrap_or(0), the no-op test, the range
\* and the first test of the loop
IncGetLastSlot ==
    /\ inc.pc = "get_last_slot"
    /\ \E fails \in BOOLEAN :
          LET last_slot == UnwrapOr(GetLastSlot(meta), 0)
          IN  inc' = IF fails THEN CycleFailed(inc, "db")
                     ELSE IF NoNewSlots(inc.chain_tip, last_slot)
                     THEN CycleOk([inc EXCEPT !.last_slot = last_slot])
                     ELSE [inc EXCEPT !.last_slot = last_slot,
                                      !.start_slot = StartSlot(last_slot),
                                      !.end_slot = inc.chain_tip + 1,
                                      !.processed_slot = StartSlot(last_slot),
                                      !.batch = <<>>,
                                      !.pc = LoopHead(StartSlot(last_slot), inc.chain_tip + 1,
                                                      <<>>, "fetch")]
    /\ UNCHANGED <<cfg, chain, tip, store, meta, orch, task, pur, rpc>>

\* lines 60-86: get_block(processed_slot).await?, parse_block, batch.extend; up
\* to the batch-size insert or through processed_slot += 1 and the checkpoint test
IncGetBlock ==
    /\ inc.pc = "fetch"
    /\ \E fails \in BOOLEAN :
          LET b == GetBlockResult(inc.processed_slot)
              parsed == IF b.ok /\ b.val.some THEN ParseBlock(b.val.val, inc.processed_slot)
                        ELSE Err("None")
              batch == IF parsed.ok THEN inc.batch \o FlattenInstructions(parsed.val)
                       ELSE inc.batch
              seen == [inc EXCEPT !.fetched = Append(@, inc.processed_slot),
                                  !.seen = @ \cup {inc.processed_slot}]
              e == Propagated(fails, b, parsed)
          IN  inc' = IF e # "none"
                     THEN CycleFailed(inc, IF e = "rpc" THEN "get_block" ELSE e)
                     ELSE IF parsed.ok /\ BatchFull(batch, cfg.batch_size)
                     THEN [seen EXCEPT !.batch = batch, !.pc = "flush"]
                     ELSE IncAdvanced(seen, batch)
    /\ UNCHANGED <<cfg, chain, tip, store, meta, orch, task, pur, rpc>>

\* lines 69-70 then 83-86: the batch-size insert
IncFlush ==
    /\ inc.pc = "flush"
    /\ \E fails \in {FALSE, inc.batch # <<>>} :
          /\ inc' = IF fails THEN CycleFailed(inc, "db")
                    ELSE IncAdvanced(Flushed(inc), Flushed(inc).batch)
          /\ store' = IF fails THEN store ELSE InsertEvents(store, inc.batch)
    /\ UNCHANGED <<cfg, chain, tip, meta, orch, task, pur, rpc>>

\* lines 87-90: the insert of a checkpoint
IncCheckpointFlush ==
    /\ inc.pc = "cp_flush"
    /\ \E fails \in BOOLEAN :
          /\ inc' = IF fails THEN CycleFailed(inc, "db")
                    ELSE [Flushed(inc) EXCEPT !.pc = "cp_cursor"]
          /\ store' = IF fails THEN store ELSE InsertEvents(store, inc.batch)
    /\ UNCHANGED <<cfg, chain, tip, meta, orch, task, pur, rpc>>

\* line 91: update_last_slot(processed_slot - 1).await?
IncCheckpointCursor ==
    /\ inc.pc = "cp_cursor"
    /\ \E fails \in BOOLEAN :
          /\ inc' = IF fails THEN CycleFailed(inc, "db")
                    ELSE [inc EXCEPT !.pc = LoopHead(inc.processed_slot, inc.end_slot,
                                                     inc.batch, "fetch")]
          /\ meta' = IF fails THEN meta ELSE UpdateLastSlot(meta, inc.processed_slot - 1)
    /\ UNCHANGED <<cfg, chain, tip, store, orch, task, pur, rpc>>

\* lines 96-98: the insert of the remaining batch
IncFinalFlush ==
    /\ inc.pc = "final_flush"
    /\ \E fails \in BOOLEAN :
          /\ inc' = IF fails THEN CycleFailed(inc, "db")
                    ELSE [Flushed(inc) EXCEPT !.pc = "final_cursor"]
          /\ store' = IF fails THEN store ELSE InsertEvents(store, inc.batch)
    /\ UNCHANGED <<cfg, chain, tip, meta, orch, task, pur, rpc>>

\* lines 101-104: update_last_slot(chain_tip).await?, then Ok(())
IncFinalCursor ==
    /\ inc.pc = "final_cursor"
    /\ \E fails \in BOOLEAN :
          /\ inc' = IF fails THEN CycleFailed(inc, "db") ELSE CycleOk(inc)
          /\ meta' = IF fails THEN meta ELSE UpdateLastSlot(meta, inc.chain_tip)
    /\ UNCHANGED <<cfg, chain, tip, store, orch, task, pur, rpc>>

\* run_incremental line 29: sleep(interval), then the next cycle
IncSleep ==
    /\ inc.pc = "sleep"
    /\ inc' = [inc EXCEPT !.pc = "get_slot"]
    /\ UNCHANGED <<cfg, chain, tip, store, meta, orch, task, pur, rpc>>

\* the process dies at any point (crash, kill, or the panic of a zero
\* checkpoint_interval) and is started again: the locals are lost, the sink stays
IncCrashRestart ==
    /\ inc.pc \notin {"idle", "init"}
    /\ inc' = [NewProcess EXCEPT !.crashed_at = inc.pc, !.seen = inc.seen]
    /\ UNCHANGED <<cfg, chain, tip, store, meta, orch, task, pur, rpc>>

\* the chain grows
TipAdvance ==
    /\ cfg.mode = "incremental"
    /\ tip < MaxSlot
    /\ tip' = tip + 1
    /\ UNCHANGED <<cfg, chain, store, meta, orch, task, inc, pur, rpc>>

-----------------------------------------------------------------------------

Init == InitBackfill \/ InitIncremental

Next ==
    \/ BackfillStart
    \/ BackfillSpawn
    \/ BackfillJoin
    \/ BackfillReturn
    \/ \E i \in DOMAIN task : TaskCreateWarehouse(i)
    \/ \E i \in DOMAIN task : TaskIsSlotProcessed(i)
    \/ \E i \in DOMAIN task : TaskGetBlock(i)
    \/ \E i \in DOMAIN task : TaskFlush(i)
    \/ \E i \in DOMAIN task : TaskCheckpointFlush(i)
    \/ \E i \in DOMAIN task : TaskCheckpointCursor(i)
    \/ \E i \in DOMAIN task : TaskFinalFlush(i)
    \/ \E i \in DOMAIN task : TaskFinalCursor(i)
    \/ IncCreateWarehouse
    \/ IncGetSlot
    \/ IncGetLastSlot
    \/ IncGetBlock
    \/ IncFlush
    \/ IncCheckpointFlush
    \/ IncCheckpointCursor
    \/ IncFinalFlush
    \/ IncFinalCursor
    \/ IncSleep
    \/ IncCrashRestart
    \/ TipAdvance

Spec == Init /\ [][Next]_vars

-----------------------------------------------------------------------------
(* Claims about the orchestrators, checked under Spec *)

\* the stored cursor, read as get_last_slot reads it
Cursor == GetLastSlot(meta)

\* C1: the persisted cursor is monotonically non-decreasing: no
\* update_last_slot call replaces the stored value with a smaller one, under any
\* interleaving of chunk workers and any sequence of incremental cycles.
C1_CursorMonotonic ==
    [][Cursor.some => Cursor'.some /\ Cursor'.val >= Cursor.val]_vars

\* the worker that owns slot s has advanced past it and the events of its
\* block, if it has one that parses, are committed
Completed(s) ==
    /\ \E i \in DOMAIN task : task[i].start_slot <= s /\ s < task[i].slot
    /\ SeqToSet(SlotEvents(s)) \subseteq store

\* C2: whenever a backfill over [S, E) with several chunk workers has written
\* the cursor with value v, every slot s with S <= s <= v is completed,
\* including the slots of other chunks.
C2_CursorCoversCompleted ==
    /\ cfg.mode = "backfill" /\ cfg.workers >= 2
    /\ \E i \in DOMAIN task : task[i].writes # <<>>
    /\ Cursor.some
    => \A s \in cfg.start_slot .. Cursor.val : Completed(s)

RowsOfSlots(st, S) == {r \in st : r.slot \in S}

\* the slots of (initial cursor, chain tip read by the cycle]
\* (a cursor that was never set counts as 0)
CycleRange == (UnwrapOr(cfg.initial_cursor, 0) + 1) .. inc.chain_tip

\* C3: whatever crashes and restarts of the incremental loader came before
\* (between a batch flush and the cursor write in particular), after a cycle
\* that returned Ok the store holds, for the slots of (initial cursor, tip],
\* exactly the events a crash-free run produces, one row per event_id.
C3_CrashSafeIncremental ==
    cfg.mode = "incremental" /\ inc.pc = "sleep" /\ inc.result = "ok"
    => /\ RowsOfSlots(store, CycleRange) = ExpectedRows(CycleRange)
       /\ UniqueIds(store)

\* C3 witness: a successful cycle over at least two slots with events, after a
\* crash that fell between a checkpoint's flush and its cursor write
C3_Witness ==
    /\ cfg.mode = "incremental" /\ inc.pc = "sleep" /\ inc.result = "ok"
    /\ inc.crashed_at = "cp_cursor"
    /\ inc.fetched # <<>>
    /\ Cardinality({r.slot : r \in RowsOfSlots(store, CycleRange)}) >= 2

\* the chunk tasks that were spawned and have not ended
Running == {i \in DOMAIN task : task[i].pc \notin ({"pending"} \cup Terminal)}

\* C6: at every moment of a backfill the number of chunk tasks started and not
\* yet finished (by success, error or panic) is at most the worker count, and
\* every such task holds one permit, from before it opens its sink until it ends.
C6_BoundedWorkers ==
    cfg.mode = "backfill"
    => /\ Cardinality(Running) <= cfg.workers
       /\ orch.permits + Cardinality(Running) = cfg.workers
       /\ orch.permits >= 0

\* C6 witness: every permit is taken, one task has not yet opened its sink and
\* a chunk is still waiting for a permit
C6_Witness ==
    /\ cfg.mode = "backfill"
    /\ Cardinality(Running) = cfg.workers /\ cfg.workers = 2
    /\ \E i \in Running : task[i].pc = "spawned"
    /\ \E i \in DOMAIN task : task[i].pc = "pending"
    /\ \E i \in DOMAIN task : task[i].pc \in Terminal

C8_FetchErrorNotChunkFatal ==
    \A i \in DOMAIN task : task[i].err = "rpc" => task[i].pc # "failed"

\* C8 (amended): in process_chunk a get_block error for slot s is returned by
\* `?`: the chunk is aborted at s, with s and every later slot of the chunk
\* unfetched and no checkpoint at or after s written, the final one included.
\* (Only a null block or a parse failure is logged and skipped.)
C8_FetchErrorAbortsChunk ==
    \A i \in DOMAIN task :
        task[i].err = "rpc"
        => /\ task[i].pc = "failed"
           /\ task[i].slot < task[i].end_slot
           /\ \A f \in SeqToSet(task[i].fetched) : f < task[i].slot
           /\ \A w \in SeqToSet(task[i].writes) : w < task[i].slot

\* C8 witness: a chunk aborted by a get_block error at its second slot, after
\* a checkpoint, while another chunk of the run completed
C8_Witness ==
    /\ \E i \in DOMAIN task : /\ task[i].err = "rpc"
                              /\ task[i].slot > task[i].start_slot
                              /\ task[i].writes # <<>>
    /\ \E i \in DOMAIN task : task[i].pc = "ok"

\* C9: a get_block error ends only the current chunk in backfill (the step
\* changes nothing but that task and its permit, the task never moves again, so
\* it fetches no further slot and writes no further cursor value, and the run
\* does not fail because of it), and only the current cycle in incremental
\* (the cursor stays below the tip the cycle read and the loop is at its sleep
\* or at the start of the next cycle).
C9_RpcErrorStopsChunkOrCycle ==
    /\ [][\A i \in DOMAIN task :
            /\ task[i].pc = "failed" => task'[i] = task[i]
            /\ (task[i].err # "rpc" /\ task'[i].err = "rpc")
               => /\ task'[i].pc = "failed"
                  /\ task'[i].slot = task[i].slot
                  /\ task'[i].fetched = task[i].fetched
                  /\ \A j \in DOMAIN task \ {i} : task'[j] = task[j]
                  /\ meta' = meta /\ store' = store
                  /\ orch'.pc = orch.pc /\ orch'.result = orch.result]_vars
    /\ [](cfg.mode = "incremental" /\ inc.err = "get_block"
          => /\ inc.pc \in {"sleep", "get_slot"}
             /\ inc.result = "err"
             /\ Cursor.some => Cursor.val < inc.chain_tip)

\* a chunk stopped by a get_block error after it had fetched a slot, in a run
\* that returned Ok with another chunk completed
C9_BackfillCase ==
    /\ cfg.mode = "backfill" /\ orch.pc = "returned" /\ orch.result = "ok"
    /\ \E i \in DOMAIN task : task[i].err = "rpc" /\ task[i].fetched # <<>>
    /\ \E i \in DOMAIN task : task[i].pc = "ok"

\* a cycle stopped by a get_block error after a checkpoint had moved the
\* cursor, with the loop at the start of its next cycle
C9_IncrementalCase ==
    /\ cfg.mode = "incremental" /\ inc.pc = "get_slot" /\ inc.err = "get_block"
    /\ inc.fetched # <<>>
    /\ Cursor.some /\ Cursor.val > UnwrapOr(cfg.initial_cursor, 0)

\* C9 witness: either orchestrator after a get_block error
C9_Witness == C9_BackfillCase \/ C9_IncrementalCase

-----------------------------------------------------------------------------
(* Claims about single slots, checked under Spec *)

\* the step in which chunk task i gets the answer of get_block for a skipped slot
TaskFetchedNull(i) ==
    /\ task[i].pc = "fetch" /\ chain[task[i].slot] = "null"
    /\ task'[i].fetched = Append(task[i].fetched, task[i].slot)

\* the step in which the incremental cycle gets the answer of get_block for a
\* skipped slot
IncFetchedNull ==
    /\ inc.pc = "fetch" /\ chain[inc.processed_slot] = "null"
    /\ inc'.fetched = Append(inc.fetched, inc.processed_slot)

C12_BackfillCase ==
    \E i \in DOMAIN task :
        /\ task[i].pc = "ok" /\ Len(task[i].fetched) >= 2
        /\ chain[task[i].fetched[1]] = "null"

\* a successful cycle that fetched a skipped slot and then a later slot
C12_IncrementalCase ==
    /\ cfg.mode = "incremental" /\ inc.pc = "sleep" /\ inc.result = "ok"
    /\ \E k \in 1 .. Len(inc.fetched) - 1 : chain[inc.fetched[k]] = "null"

TaskSlots(i) == task[i].start_slot .. task[i].end_slot - 1

\* process_chunk of task i ran and no RPC or sink call of it returned an error
ChunkEndedWithoutCallError(i) ==
    task[i].pc \in Terminal /\ task[i].err \notin {"rpc", "db", "expect"}

\* what a completed chunk leaves: for its slots exactly the events of the
\* blocks that are present and parse, nothing for null or unparseable slots,
\* and b - 1 as its last cursor write
ChunkLoaded(i) ==
    /\ RowsOfSlots(store, TaskSlots(i)) = ExpectedRows(TaskSlots(i))
    /\ \A s \in TaskSlots(i) :
          /\ chain[s] \in {"null", "bad"} => RowsOfSlots(store, {s}) = {}
          /\ chain[s] \in {"one", "two"} => RowsOfSlots(store, {s}) # {}
    /\ UniqueIds(store)
    /\ task[i].writes # <<>>
    /\ task[i].writes[Len(task[i].writes)] = task[i].end_slot - 1

\* the final update_last_slot of task i stores b - 1
FinalCursorWritten ==
    [][\A i \in DOMAIN task :
          task[i].pc # "ok" /\ task'[i].pc = "ok"
          => Cursor' = Some(task[i].end_slot - 1)]_vars

-----------------------------------------------------------------------------
(* Claims about incremental cycles, checked under Spec *)

\* the positions of process_incremental at which get_block, insert_events or
\* update_last_slot is the next call
IncCallSites == {"fetch", "flush", "cp_flush", "cp_cursor", "final_flush", "final_cursor"}

\* C14: in an incremental cycle whose chain tip is <= the stored cursor (0 when
\* none is stored) the cycle returns Ok right after reading the cursor: no
\* get_block, insert_events or update_last_slot call site is ever reached in
\* such a cycle, and the step leaves the cursor row and the event store as
\* they were.
C14_NoOpCycle ==
    /\ [](cfg.mode = "incremental" /\ inc.pc \in IncCallSites
          => inc.chain_tip > inc.last_slot)
    /\ [][/\ inc.pc = "get_last_slot" /\ inc.chain_tip <= UnwrapOr(Cursor, 0)
           /\ inc' # inc /\ inc'.pc # "init" /\ inc'.result # "err"
           => /\ inc'.pc = "sleep" /\ inc'.result = "ok"
              /\ inc'.fetched = <<>>
              /\ store' = store /\ meta' = meta]_vars

\* C14 witness: a cycle that found the tip equal to a stored cursor and
\* returned Ok without a fetch, the store holding the rows of an earlier load
C14_Witness ==
    /\ cfg.mode = "incremental" /\ inc.pc = "sleep" /\ inc.result = "ok"
    /\ inc.fetched = <<>>
    /\ Cursor.some /\ Cursor.val >= 1 /\ inc.chain_tip = Cursor.val
    /\ inc.last_slot = Cursor.val
    /\ store # {}

\* process_incremental has just returned Ok to the loop of run_incremental
CycleReturnedOk == cfg.mode = "incremental" /\ inc.pc = "sleep" /\ inc.result = "ok"

\* C15 (as stated): after every incremental cycle that returns successfully
\* the cursor (0 when none is stored) is >= its value before the cycle and
\* equals the chain tip the cycle read at its start.
C15_CursorEqualsTip ==
    CycleReturnedOk
    => /\ UnwrapOr(Cursor, 0) >= inc.last_slot
       /\ UnwrapOr(Cursor, 0) = inc.chain_tip

\* C15 (amended): after every incremental cycle that returns successfully the
\* cursor is >= its value before the cycle; it is stored and equals the chain
\* tip the cycle read when that tip was above the cursor, and it is left as it
\* was (at or above the tip, or not stored at all) when the tip was not.
C15_CursorAtLeastTip ==
    CycleReturnedOk
    => /\ UnwrapOr(Cursor, 0) >= inc.last_slot
       /\ UnwrapOr(Cursor, 0) >= inc.chain_tip
       /\ inc.chain_tip > inc.last_slot => Cursor = Some(inc.chain_tip)
       /\ inc.chain_tip <= inc.last_slot => UnwrapOr(Cursor, 0) = inc.last_slot

\* C15 witness: a successful cycle that moved a stored cursor up to the tip
\* over at least two slots
C15_Witness ==
    /\ CycleReturnedOk
    /\ inc.last_slot >= 1 /\ inc.chain_tip >= inc.last_slot + 2
    /\ Cursor = Some(inc.chain_tip)
    /\ Len(inc.fetched) >= 2

\* the events of the slots fetched[k], fetched[k+1], ... in that order
RECURSIVE EventsFrom(_, _)
EventsFrom(fetched, k) ==
    IF k > Len(fetched) THEN <<>>
    ELSE SlotEvents(fetched[k]) \o EventsFrom(fetched, k + 1)

\* inside a cycle that found new slots and in which no call has failed:
\* get_block has been called once for each of cursor+1, cursor+2, ... so far,
\* in increasing order, never past the tip, and the batch holds, in slot order,
\* the events of the last slots fetched (those not yet given to insert_events).
\* One slot is in flight at a time: the cycle is a single sequential loop.
FetchedInOrder ==
    /\ inc.chain_tip > inc.last_slot
    /\ inc.start_slot = inc.last_slot + 1
    /\ \A k \in 1 .. Len(inc.fetched) : inc.fetched[k] = inc.last_slot + k
    /\ Len(inc.fetched) <= inc.chain_tip - inc.last_slot
    /\ \E k \in 1 .. Len(inc.fetched) + 1 : inc.batch = EventsFrom(inc.fetched, k)
    /\ inc.pc = "fetch" => inc.processed_slot = inc.last_slot + Len(inc.fetched) + 1

\* the cycle returned Ok after get_block was called for every slot up to the tip
FetchedAll ==
    CycleReturnedOk /\ inc.chain_tip > inc.last_slot
    => /\ Len(inc.fetched) = inc.chain_tip - inc.last_slot
       /\ \A k \in 1 .. Len(inc.fetched) : inc.fetched[k] = inc.last_slot + k

-----------------------------------------------------------------------------
(* SpecIncremental: the incremental loader alone, left to run (no crash from
   outside), every await of it eventually returning: the tokio runtime polls the
   one task of run_incremental, and the sleep of line 29 ends. *)

\* a step of run_incremental
IncStep ==
    \/ IncCreateWarehouse
    \/ IncGetSlot
    \/ IncGetLastSlot
    \/ IncGetBlock
    \/ IncFlush
    \/ IncCheckpointFlush
    \/ IncCheckpointCursor
    \/ IncFinalFlush
    \/ IncFinalCursor
    \/ IncSleep

NextIncremental == IncStep \/ TipAdvance

SpecIncremental == InitIncremental /\ [][NextIncremental]_vars /\ WF_vars(IncStep)

\* run_incremental returns only before its loop (create_warehouse or connect
\* failed), and every cycle with new slots starts from the stored cursor
LoopNeverReturns ==
    [][/\ inc'.pc = "returned" => inc.pc \in {"init", "returned"}
       /\ inc.pc = "get_last_slot" /\ inc'.pc \in IncCallSites
          => inc'.start_slot = UnwrapOr(Cursor, 0) + 1]_vars

-----------------------------------------------------------------------------
(* Claims about checkpoints and termination of a backfill *)

\* the number of slots task i has advanced past since its last cursor write,
\* or since the start of its chunk when it has written none
SinceCheckpoint(i) ==
    IF task[i].writes = <<>> THEN task[i].slot - task[i].start_slot
    ELSE task[i].slot - (task[i].writes[Len(task[i].writes)] + 1)

\* C18: during process_chunk the number of slots the worker has advanced past
\* since its last cursor write (or since the chunk start) never exceeds
\* checkpoint_interval, for every mix of already-processed, null, unparseable
\* and normal slots.  Stated for checkpoint_interval >= 1 and at the head of
\* the loop (before the next slot is looked at), where a due checkpoint has
\* been written.
C18_ReplayBounded ==
    \A i \in DOMAIN task :
        cfg.checkpoint_interval >= 1 /\ task[i].pc \in {"check", "fetch"}
        => SinceCheckpoint(i) <= cfg.checkpoint_interval

-----------------------------------------------------------------------------
(* SpecBackfill: one backfill run left to itself, every await eventually
   returning (with Ok or Err): the runtime polls run_backfill and each spawned
   task.  Worker counts from 0 and an empty range are included. *)

\* the most chunks a run can have
MaxChunks == MaxSlot + 1

TerminationConfigs ==
    {c \in [mode : {"backfill"},
            start_slot : {0},
            end_slot : {0, MaxSlot},
            workers : {0, 1, 2},
            batch_size : {1, MaxBatch},
            checkpoint_interval : {0, 1, 2},
            backfill_chunk_size : {0, 1, 2},
            warehouse_type : {"postgres", "snowflake"},
            initial_cursor : {None}] :
        /\ c.backfill_chunk_size = 1 => c.batch_size = 1 /\ c.checkpoint_interval = 1
        /\ c.checkpoint_interval = 2 => c.batch_size = MaxBatch /\ c.workers <= 1}

InitTermination ==
    /\ cfg \in TerminationConfigs
    /\ chain = Chain(1)
    /\ tip = MaxSlot
    /\ store = {}
    /\ meta = {}
    /\ orch = [pc |-> "start", chunks |-> <<>>, next |-> 1, joined |-> 1,
               permits |-> cfg.workers, result |-> "none"]
    /\ task = <<>>
    /\ inc = IdleInc
    /\ pur = IdlePur
    /\ rpc = IdleRpc

\* a step of the task of chunk i
TaskStep(i) ==
    /\ i \in DOMAIN task
    /\ \/ TaskCreateWarehouse(i)
       \/ TaskIsSlotProcessed(i)
       \/ TaskGetBlock(i)
       \/ TaskFlush(i)
       \/ TaskCheckpointFlush(i)
       \/ TaskCheckpointCursor(i)
       \/ TaskFinalFlush(i)
       \/ TaskFinalCursor(i)

\* a step of run_backfill itself
OrchStep == BackfillStart \/ BackfillSpawn \/ BackfillJoin \/ BackfillReturn

NextBackfill == OrchStep \/ \E i \in 1 .. MaxChunks : TaskStep(i)

SpecBackfill ==
    /\ InitTermination /\ [][NextBackfill]_vars
    /\ WF_vars(OrchStep)
    /\ \A i \in 1 .. MaxChunks : WF_vars(TaskStep(i))

\* run_backfill returns Ok only after every chunk task has finished
OkAfterAllTasks ==
    orch.pc = "returned" /\ orch.result = "ok"
    => /\ Len(task) = Len(orch.chunks)
       /\ \A i \in DOMAIN task : task[i].pc \in {"ok", "failed"}

\* C19 (as stated): for every slot range and every worker count the command
\* accepts, every call eventually returning, run_backfill eventually returns,
\* and it returns Ok only after every chunk task has finished, whatever order
\* the chunks finish in.
C19_BackfillReturns ==
    /\ <>(orch.pc = "returned")
    /\ []OkAfterAllTasks

\* C19 (amended): run_backfill eventually returns when workers >= 1 and the
\* chunk size is >= 1, or when the range is empty and the chunk size is >= 1;
\* with a chunk size of 0 it panics while building the chunks, and with 0
\* workers and a non-empty range it waits for a permit for ever, no task
\* started.  It returns Ok only after every chunk task has finished.
C19_BackfillReturnsWithWorkers ==
    /\ <>(\/ orch.pc = "returned"
          \/ orch.pc = "panicked"
          \/ orch.pc = "spawning" /\ cfg.workers = 0)
    /\ [](orch.pc = "panicked" => cfg.backfill_chunk_size = 0)
    /\ [](cfg.workers = 0 /\ orch.pc \notin {"start", "panicked"}
          => \/ orch.pc = "spawning" /\ \A i \in DOMAIN task : task[i].pc = "pending"
             \/ cfg.end_slot <= cfg.start_slot)
    /\ [](cfg.workers >= 1 /\ orch.pc = "spawning"
          => orch.permits > 0 \/ \E i \in DOMAIN task : task[i].pc \notin ({"pending"} \cup Terminal))
    /\ []OkAfterAllTasks

\* C19 witness: a run with more chunks than workers returned Ok, the chunks
\* having finished out of order (a later chunk wrote the cursor before an
\* earlier one), one of them failed
C19_Witness ==
    /\ orch.pc = "returned" /\ orch.result = "ok"
    /\ Len(task) > cfg.workers /\ cfg.workers = 2
    /\ \E i \in DOMAIN task : task[i].pc = "failed"
    /\ task[1].pc = "ok" /\ Cursor = Some(task[1].end_slot - 1)

-----------------------------------------------------------------------------
(* C20: blocks parse_block rejects *)

\* the step in which chunk task i gets a block that parse_block rejects
TaskFetchedBad(i) ==
    /\ task[i].pc = "fetch" /\ chain[task[i].slot] = "bad"
    /\ task'[i].fetched = Append(task[i].fetched, task[i].slot)

\* the step in which the incremental cycle gets a block that parse_block rejects
IncFetchedBad ==
    /\ inc.pc = "fetch" /\ chain[inc.processed_slot] = "bad"
    /\ inc'.fetched = Append(inc.fetched, inc.processed_slot)

\* the step in which process_chunk returns an error at the fetch of a slot
\* whose block parse_block rejects
TaskFailedOnBad(i) ==
    /\ task[i].pc = "fetch" /\ chain[task[i].slot] = "bad"
    /\ task'[i].pc = "failed"

\* the step in which process_incremental returns an error at the fetch of a
\* slot whose block parse_block rejects
IncFailedOnBad ==
    /\ inc.pc = "fetch" /\ chain[inc.processed_slot] = "bad"
    /\ inc'.pc = "sleep" /\ inc'.result = "err"

\* an error returned at such a slot is get_block's own, never the parse error
OnlyCallErrorsReturned ==
    /\ \A i \in DOMAIN task : TaskFailedOnBad(i) => task'[i].err = "rpc"
    /\ IncFailedOnBad => inc'.err = "get_block"

\* parse_block fails on a block without blockTime, with a timestamp out of
\* range or without transactions array, and the slot then contributes no event
ParseFailureYieldsNoEvents ==
    \A s \in Slots :
        /\ ~ParseBlock(BadBlock(s), s).ok
        /\ ParsedEvents(BadBlock(s), s) = <<>>
        /\ chain[s] = "bad" => SlotEvents(s) = <<>>

C20_BackfillCase ==
    \E i \in DOMAIN task :
        /\ task[i].pc = "ok" /\ Len(task[i].fetched) >= 2
        /\ \E k \in 1 .. Len(task[i].fetched) - 1 :
              /\ chain[task[i].fetched[k]] = "bad"
              /\ ~BadBlock(task[i].fetched[k]).transactions.some

\* a successful cycle that fetched a block without blockTime and then a later slot
C20_IncrementalCase ==
    /\ cfg.mode = "incremental" /\ inc.pc = "sleep" /\ inc.result = "ok"
    /\ \E k \in 1 .. Len(inc.fetched) - 1 :
          /\ chain[inc.fetched[k]] = "bad"
          /\ ~BadBlock(inc.fetched[k]).blockTime.some

-----------------------------------------------------------------------------
(* SpecTx: one insert_events(batch) call of PostgresWarehouse, statement by
   statement.  store is what other connections see (the committed rows),
   pur.txrows what the open transaction sees; pur.pool tells whether the
   instance holds a connection pool. *)

RolledBackKeepsRows(st, txrows) == txrows

\* the `?` of a failed statement or commit drops the sqlx Transaction, which
\* rolls it back: the committed rows stay as they were
RolledBack(st, txrows) == st

InitTx ==
    /\ OrchestratorsIdle
    /\ rpc = IdleRpc
    /\ store \in {st \in SUBSET InsertUniverse : UniqueIds(st)}
    /\ \E B \in BatchesUpTo(MaxBatch), pool \in BOOLEAN :
          pur = [op |-> "tx", pc |-> "start", batch |-> B, k |-> 1, txrows |-> {},
                 before |-> store, pool |-> pool, had_pool |-> pool, result |-> "none"]

\* lines 197-207: the empty-batch return, get_pool (connect and init_schema
\* when the instance has no pool yet) and pool.begin()
TxBegin ==
    /\ pur.op = "tx" /\ pur.pc = "start"
    /\ IF pur.batch = <<>>
       THEN pur' = [pur EXCEPT !.pc = "done", !.result = "ok"]
       ELSE \E outcome \in {"ok", "begin_fails"}
                           \cup (IF pur.pool THEN {} ELSE {"connect_fails", "schema_fails"}) :
               pur' = IF outcome = "ok"
                      THEN [pur EXCEPT !.pc = "insert", !.pool = TRUE, !.txrows = store]
                      ELSE [pur EXCEPT !.pc = "done", !.result = "Database",
                                       !.pool = outcome # "connect_fails"]
    /\ UNCHANGED <<cfg, chain, tip, store, meta, orch, task, inc, rpc>>

\* lines 209-238: the INSERT .. ON CONFLICT of one event inside the transaction
TxInsertEvent ==
    /\ pur.op = "tx" /\ pur.pc = "insert"
    /\ \E fails \in BOOLEAN :
          IF fails
          THEN /\ pur' = [pur EXCEPT !.pc = "done", !.result = "Database"]
               /\ store' = RolledBack(store, pur.txrows)
          ELSE /\ pur' = [pur EXCEPT !.txrows = Upsert(@, pur.batch[pur.k]), !.k = @ + 1,
                                     !.pc = IF pur.k = Len(pur.batch) THEN "commit" ELSE "insert"]
               /\ store' = store
    /\ UNCHANGED <<cfg, chain, tip, meta, orch, task, inc, rpc>>

\* lines 240-243: tx.commit()
TxCommit ==
    /\ pur.op = "tx" /\ pur.pc = "commit"
    /\ \E fails \in BOOLEAN :
          IF fails
          THEN /\ pur' = [pur EXCEPT !.pc = "done", !.result = "Database"]
               /\ store' = RolledBack(store, pur.txrows)
          ELSE /\ pur' = [pur EXCEPT !.pc = "done", !.result = "ok"]
               /\ store' = pur.txrows
    /\ UNCHANGED <<cfg, chain, tip, meta, orch, task, inc, rpc>>

SpecTx == InitTx /\ [][TxBegin \/ TxInsertEvent \/ TxCommit]_vars

\* C21: insert_events is all-or-nothing: until the call has returned Ok the
\* store shows none of the batch's changes, a failed call returns a Database
\* error and leaves the store as it was, a successful one leaves the rows of
\* the whole batch; an empty batch returns Ok without touching the store or
\* opening a connection.
C21_InsertAllOrNothing ==
    pur.op = "tx"
    => /\ pur.result \in {"none", "ok", "Database"}
       /\ pur.result = "none" <=> pur.pc # "done"
       /\ pur.result # "ok" => store = pur.before
       /\ pur.result = "ok" => store = InsertEvents(pur.before, pur.batch)
       /\ pur.batch = <<>> /\ pur.pc = "done"
          => pur.result = "ok" /\ store = pur.before /\ pur.pool = pur.had_pool

\* C21 witness: a batch of two events failed at its second event, the first
\* one, new to the store, written inside the transaction
C21_Witness ==
    /\ pur.op = "tx" /\ pur.pc = "done" /\ pur.result = "Database"
    /\ Len(pur.batch) = 2 /\ pur.k = 2
    /\ pur.txrows # pur.before
    /\ \A r \in store : r.event_id # pur.batch[1].event_id

-----------------------------------------------------------------------------
(* C22: the already-processed test of process_chunk *)

\* the sequence is strictly increasing
StrictlyIncreasing(f) == \A j, k \in DOMAIN f : j < k => f[j] < f[k]

\* C22: is_slot_processed(s) is true exactly when the store holds a row of slot
\* s; process_chunk calls get_block for slot s only after is_slot_processed(s)
\* answered false for the slot the worker stands at; the slot counter moves
\* one slot up at a time and the fetched slots are strictly increasing.
C22_FetchOnlyUnprocessed ==
    /\ [](\A s \in Slots : IsSlotProcessed(store, s) <=> \E r \in store : r.slot = s)
    /\ [](\A i \in DOMAIN task : StrictlyIncreasing(task[i].fetched))
    /\ [][\A i \in DOMAIN task :
            /\ task'[i].slot \in {task[i].slot, task[i].slot + 1}
            /\ task'[i].fetched # task[i].fetched
               => /\ task[i].pc = "fetch"
                  /\ task'[i].fetched = Append(task[i].fetched, task[i].slot)
            /\ task'[i].pc = "fetch" /\ task[i].pc # "fetch"
               => /\ task[i].pc = "check"
                  /\ task'[i].slot = task[i].slot
                  /\ ~IsSlotProcessed(store, task[i].slot)
            /\ task[i].pc = "check" /\ IsSlotProcessed(store, task[i].slot)
               => task'[i].pc # "fetch"]_vars

\* C22 witness: a chunk of the whole range completed having skipped the stored
\* slots and fetched the others in order
C22_Witness ==
    /\ store # {}
    /\ \E i \in DOMAIN task :
          /\ task[i].pc = "ok" /\ task[i].end_slot - task[i].start_slot = MaxSlot + 1
          /\ Len(task[i].fetched) >= 2
          /\ \A s \in TaskSlots(i) :
                (\E k \in DOMAIN task[i].fetched : task[i].fetched[k] = s)
                <=> s \notin Preloaded

-----------------------------------------------------------------------------
(* SpecCursor: update_last_slot called again and again on an empty
   etl_metadata table, get_last_slot read after every call.  pur.calls is the
   sequence of the slots written so far. *)

MaxCalls == 3

\* slots of one, two and three decimal digits
CursorSlots == {0, MaxSlot, 9, 10, 109}

InitCursor ==
    /\ OrchestratorsIdle
    /\ rpc = IdleRpc
    /\ store = {}
    /\ pur = [op |-> "cursor", calls |-> <<>>]

\* one update_last_slot(slot) call that returns Ok
UpdateCursor ==
    /\ pur.op = "cursor" /\ Len(pur.calls) < MaxCalls
    /\ \E slot \in CursorSlots :
          /\ meta' = UpdateLastSlot(meta, slot)
          /\ pur' = [pur EXCEPT !.calls = Append(@, slot)]
    /\ UNCHANGED <<cfg, chain, tip, store, orch, task, inc, rpc>>

SpecCursor == InitCursor /\ [][UpdateCursor]_vars

\* C23: get_last_slot returns none while update_last_slot has never been
\* called, and after any sequence of update_last_slot calls the value of the
\* most recent call; the metadata store holds a single cursor row.
C23_LastWriteRead ==
    pur.op = "cursor"
    => /\ pur.calls = <<>> => GetLastSlot(meta) = None /\ meta = {}
       /\ pur.calls # <<>> => GetLastSlot(meta) = Some(pur.calls[Len(pur.calls)])
       /\ Cardinality({r \in meta : r.key = CURSOR_KEY}) <= 1
       /\ Cardinality(meta) <= 1

\* C23 witness: three calls, the last one with a smaller slot of fewer digits
\* than the one before
C23_Witness ==
    /\ pur.op = "cursor" /\ Len(pur.calls) = 3
    /\ pur.calls[2] = 109 /\ pur.calls[3] = 9
    /\ GetLastSlot(meta) = Some(9)

-----------------------------------------------------------------------------
(* SpecPool: get_pool of one PostgresWarehouse instance called by several
   concurrent sink calls.  pur.pool is the Option<Arc<PgPool>> behind the
   mutex (0 for None, else the number of the pool), pur.established the
   number of pools PgPool::connect has created, pur.callers the callers. *)

MaxCallers == 3

InitPool ==
    /\ OrchestratorsIdle
    /\ rpc = IdleRpc
    /\ store = {}
    /\ pur = [op |-> "pool", pool |-> 0, established |-> 0,
              callers |-> [c \in 1 .. MaxCallers |-> [pc |-> "start", mine |-> 0, got |-> 0]]]

\* lines 111-116: under the lock, return the stored pool if there is one; the
\* lock is released at the end of the block
PoolCheck(c) ==
    /\ pur.op = "pool" /\ pur.callers[c].pc = "start"
    /\ pur' = [pur EXCEPT !.callers[c] =
                  IF pur.pool # 0 THEN [@ EXCEPT !.pc = "done", !.got = pur.pool]
                  ELSE [@ EXCEPT !.pc = "connecting"]]
    /\ UNCHANGED <<cfg, chain, tip, store, meta, orch, task, inc, rpc>>

\* lines 123-132: PgPool::connect(conn_str).await returns; on Ok the new pool
\* is stored under the lock, replacing what is there
PoolConnect(c) ==
    /\ pur.op = "pool" /\ pur.callers[c].pc = "connecting"
    /\ \E fails \in BOOLEAN :
          pur' = IF fails
                 THEN [pur EXCEPT !.callers[c].pc = "failed"]
                 ELSE [pur EXCEPT !.established = @ + 1, !.pool = pur.established + 1,
                                  !.callers[c] = [@ EXCEPT !.pc = "schema",
                                                           !.mine = pur.established + 1]]
    /\ UNCHANGED <<cfg, chain, tip, store, meta, orch, task, inc, rpc>>

\* lines 135-138: init_schema(&pool_arc).await?; Ok(pool_arc)
PoolInitSchema(c) ==
    /\ pur.op = "pool" /\ pur.callers[c].pc = "schema"
    /\ \E fails \in BOOLEAN :
          pur' = IF fails THEN [pur EXCEPT !.callers[c].pc = "failed"]
                 ELSE [pur EXCEPT !.callers[c] = [@ EXCEPT !.pc = "done", !.got = pur.callers[c].mine]]
    /\ UNCHANGED <<cfg, chain, tip, store, meta, orch, task, inc, rpc>>

SpecPool ==
    InitPool /\ [][\E c \in 1 .. MaxCallers :
                      PoolCheck(c) \/ PoolConnect(c) \/ PoolInitSchema(c)]_vars

\* C24: for one PostgresWarehouse instance, under any interleaving of
\* concurrent sink calls, at most one connection pool is ever established: the
\* first caller's pool is stored and every later or concurrent caller obtains
\* that same pool.
C24_SinglePool ==
    pur.op = "pool"
    => /\ pur.established <= 1
       /\ pur.pool \in {0, 1}
       /\ \A c \in 1 .. MaxCallers : pur.callers[c].pc = "done" => pur.callers[c].got = 1

-----------------------------------------------------------------------------
(* C25: an unsupported warehouse type *)

\* C25: with a warehouse type other than 'postgres' or 'bigquery',
\* create_warehouse returns a Config error, and both run_backfill and
\* run_incremental fail with it at startup, before any chunk task is started
\* or any RPC request is sent.
C25_ConfigErrorAtStartup ==
    cfg.warehouse_type \notin {"postgres", "bigquery"}
    => /\ CreateWarehouse(cfg.warehouse_type) = Err("Config")
       /\ \A i \in DOMAIN task : task[i].pc = "pending" /\ task[i].fetched = <<>>
       /\ orch.pc = "returned" => orch.result = "err"
       /\ inc.pc \in {"idle", "init", "returned"}
       /\ inc.pc = "returned" => inc.result = "err" /\ inc.fetched = <<>>

-----------------------------------------------------------------------------
(* SpecParse: parse_block, and parse_transaction on each transaction, applied
   to every raw block of a small universe.  pur.out holds the results of the
   parse_block calls made so far, pur.tx_out those of parse_transaction on
   the block's transactions, in order. *)

ParseInstructionLists ==
    LET ids == {None, Some(TOKEN_PROGRAM_ID), Some(TOKEN_2022_PROGRAM_ID), Some("Other")}
    IN  UNION {[1 .. n -> [programId : ids]] : n \in 0 .. 2}

\* transactions with their four parts, and the four with one part missing
ParseTransactions ==
    [meta : {Some([postTokenBalances |-> b]) :
                 b \in {<<>>, <<[mint |-> None], [mint |-> Some("mintA")]>>}},
     transaction : {Some([signatures |-> <<sig>>, instructions |-> Some(l)]) :
                        sig \in {"sigA", "sigB"}, l \in ParseInstructionLists}]
    \cup {TxNoMeta,
          [meta |-> Some([postTokenBalances |-> <<>>]), transaction |-> None],
          [meta |-> Some([postTokenBalances |-> <<>>]),
           transaction |-> Some([signatures |-> <<>>, instructions |-> Some(<<>>)])],
          [meta |-> Some([postTokenBalances |-> <<>>]),
           transaction |-> Some([signatures |-> <<"sigA">>, instructions |-> None])]}

InitParse ==
    /\ OrchestratorsIdle
    /\ rpc = IdleRpc
    /\ store = {}
    /\ \E txs \in UNION {[1 .. n -> ParseTransactions] : n \in 0 .. 2}, slot \in {0, 1} :
          pur = [op |-> "parse", slot |-> slot,
                 block |-> [blockTime |-> Some(slot + 1), transactions |-> Some(txs)],
                 out |-> <<>>, tx_out |-> <<>>]

\* one parse_block(&block, slot) call
ParseBlockCall ==
    /\ pur.op = "parse" /\ Len(pur.out) < 2
    /\ pur' = [pur EXCEPT !.out = Append(@, ParseBlock(pur.block, pur.slot))]
    /\ UNCHANGED <<cfg, chain, tip, store, meta, orch, task, inc, rpc>>

\* parse_transaction on the next transaction of the block
ParseTransactionCall ==
    /\ pur.op = "parse" /\ Len(pur.tx_out) < Len(pur.block.transactions.val)
    /\ pur' = [pur EXCEPT !.tx_out =
                  Append(@, ParseTransaction(pur.block.transactions.val[Len(pur.tx_out) + 1],
                                             pur.slot, ExtractBlockTime(pur.block).val))]
    /\ UNCHANGED <<cfg, chain, tip, store, meta, orch, task, inc, rpc>>

SpecParse == InitParse /\ [][ParseBlockCall \/ ParseTransactionCall]_vars

\* a transaction with meta, transaction data, a signature and an instruction list
HasAllParts(tx) ==
    /\ tx.meta.some /\ tx.transaction.some
    /\ tx.transaction.val.signatures # <<>>
    /\ tx.transaction.val.instructions.some

\* the transactions of the block that have all their parts, in block order
ParseableTransactions(block) == SelectSeq(block.transactions.val, HasAllParts)

\* the place of an event inside its transaction: the transaction-level event,
\* then the instruction events, then the token_transfer events
Rank(e) ==
    IF e.event_type = "transaction" THEN 0
    ELSE IF e.event_type = "token_transfer" THEN 2 ELSE 1

\* the number, in block order, of the transaction an event of ev belongs to:
\* the count of transaction-level events up to it
TxNumber(ev, j) == Cardinality({s \in 1 .. j : ev[s].event_type = "transaction"})

\* C26: in the output of parse_block, events appear in the block's transaction
\* order, and for each transaction the transaction-level event (instruction
\* index -1) comes first, then its instruction events in instruction order,
\* then its token_transfer events.
C26_EventOrder ==
    pur.op = "parse"
    => \A c \in DOMAIN pur.out :
          LET ev == pur.out[c].val
              good == ParseableTransactions(pur.block)
          IN  /\ pur.out[c].ok
              /\ TxNumber(ev, Len(ev)) = Len(good)
              /\ \A j \in DOMAIN ev :
                    LET n == TxNumber(ev, j)
                    IN  /\ n \in DOMAIN good
                        /\ ev[j].tx_signature = Head(good[n].transaction.val.signatures)
                        /\ Rank(ev[j]) = 0
                           => ev[j].instruction_index = -1 /\ ev[j].raw_payload = good[n]
                        /\ Rank(ev[j]) = 1
                           => ev[j].raw_payload
                              = good[n].transaction.val.instructions.val[ev[j].instruction_index + 1]
                        /\ Rank(ev[j]) = 2
                           => ev[j].raw_payload
                              = good[n].meta.val.postTokenBalances[ev[j].instruction_index + 1]
              /\ \A j, k \in DOMAIN ev :
                    j < k /\ TxNumber(ev, j) = TxNumber(ev, k)
                    => /\ Rank(ev[j]) <= Rank(ev[k])
                       /\ Rank(ev[j]) = Rank(ev[k])
                          => ev[j].instruction_index < ev[k].instruction_index

\* C26 witness: a block of two transactions, the second with two instructions
\* and a token transfer, parsed into events of the two in block order
C26_Witness ==
    /\ pur.op = "parse" /\ Len(pur.out) >= 1 /\ pur.out[1].ok
    /\ LET ev == pur.out[1].val
       IN  /\ Len(ev) = 6
           /\ ev[1].tx_signature = "sigB" /\ ev[3].tx_signature = "sigA"
           /\ <<Rank(ev[1]), Rank(ev[2]), Rank(ev[3]), Rank(ev[4]), Rank(ev[5]), Rank(ev[6])>>
              = <<0, 1, 0, 1, 1, 2>>

\* the positions of ev holding an event of one of the types
Positions(ev, types) == {j \in DOMAIN ev : ev[j].event_type \in types}

\* C27: for a transaction with n instructions, parse_transaction emits exactly
\* one 'transaction' event with instruction_index -1 followed by exactly n
\* instruction events with indices 0..n-1, the i-th being 'token_instruction'
\* iff its programId is the SPL Token or Token-2022 id and
\* 'program_instruction' otherwise.
C27_TransactionEvents ==
    pur.op = "parse"
    => \A k \in DOMAIN pur.tx_out :
          pur.tx_out[k].ok
          => LET ev == pur.tx_out[k].val
                 instructions == pur.block.transactions.val[k].transaction.val.instructions.val
                 n == Len(instructions)
             IN  /\ Len(ev) >= n + 1
                 /\ ev[1].event_type = "transaction" /\ ev[1].instruction_index = -1
                 /\ Positions(ev, {"transaction"}) = {1}
                 /\ Positions(ev, {"token_instruction", "program_instruction"}) = 2 .. n + 1
                 /\ \A i \in 1 .. n :
                       /\ ev[i + 1].instruction_index = i - 1
                       /\ ev[i + 1].event_type = "token_instruction"
                          <=> instructions[i].programId \in {Some(TOKEN_PROGRAM_ID),
                                                            Some(TOKEN_2022_PROGRAM_ID)}
                       /\ ev[i + 1].event_type = "program_instruction"
                          <=> instructions[i].programId \notin {Some(TOKEN_PROGRAM_ID),
                                                               Some(TOKEN_2022_PROGRAM_ID)}

\* C27 witness: a transaction with a Token-2022 instruction, then an
\* instruction without programId, and a token transfer after them
C27_Witness ==
    /\ pur.op = "parse" /\ Len(pur.tx_out) >= 1 /\ pur.tx_out[1].ok
    /\ LET ev == pur.tx_out[1].val
       IN  /\ Len(ev) = 4
           /\ ev[2].program_id = Some(TOKEN_2022_PROGRAM_ID) /\ ev[2].event_type = "token_instruction"
           /\ ev[3].program_id = None /\ ev[3].event_type = "program_instruction"
           /\ ev[4].event_type = "token_transfer"

RECURSIVE EventsOfResults(_)
\* the events of the transactions that parsed, in order
EventsOfResults(results) ==
    IF results = <<>> THEN <<>>
    ELSE (IF Head(results).ok THEN Head(results).val ELSE <<>>) \o EventsOfResults(Tail(results))

\* C28: a transaction that cannot be parsed (missing meta, transaction data,
\* signature or instruction list) contributes zero events, and parse_block
\* still returns Ok with the complete events of every other transaction of the
\* block in their original order.
C28_BadTransactionSkipped ==
    pur.op = "parse"
    => /\ \A k \in DOMAIN pur.tx_out :
             pur.tx_out[k].ok <=> HasAllParts(pur.block.transactions.val[k])
       /\ \A c \in DOMAIN pur.out :
             /\ pur.out[c].ok
             /\ \A j \in DOMAIN pur.out[c].val :
                   pur.out[c].val[j].event_type = "transaction"
                   => HasAllParts(pur.out[c].val[j].raw_payload)
             /\ Len(pur.tx_out) = Len(pur.block.transactions.val)
                => pur.out[c].val = EventsOfResults(pur.tx_out)

\* C28 witness: a block whose first transaction has no signature and whose
\* second has an instruction: parse_block returned the events of the second
C28_Witness ==
    /\ pur.op = "parse" /\ Len(pur.tx_out) = 2 /\ Len(pur.out) >= 1
    /\ ~pur.tx_out[1].ok /\ pur.tx_out[2].ok
    /\ pur.block.transactions.val[1].transaction.some
    /\ pur.out[1].ok /\ Len(pur.out[1].val) = 2
    /\ pur.out[1].val = pur.tx_out[2].val

-----------------------------------------------------------------------------
(* SpecLimiter: the backfill workers calling the RPC client again and again
   under its rate limiter.  pur.cells[k] is the number of cells free in the
   limiter of client k, pur.refills the cells time has given back, pur.granted
   the tokens handed out, pur.sent the first requests sent, pur.workers the
   workers, each at until_ready ("limiter") or past it ("send"). *)

LimiterWorkers == 3

MaxRefills == 3

\* Quota::per_second(max(1, rate_limit_per_second)): that many cells, all free
\* at the start, one given back at a time
QuotaOf(rate_limit_per_second) ==
    IF rate_limit_per_second < 1 THEN 1 ELSE rate_limit_per_second

ClientPerWorker(w) == w

\* the client a worker calls: the one Arc<AlchemyRPCClient> of run_backfill,
\* rpc_client.clone() handing the same instance to every task
ClientOf(w) == 1

InitLimiter ==
    /\ OrchestratorsIdle
    /\ rpc = IdleRpc
    /\ store = {}
    /\ \E rate \in 0 .. LimiterWorkers :
          pur = [op |-> "limiter", quota |-> QuotaOf(rate),
                 cells |-> [k \in 1 .. LimiterWorkers |-> QuotaOf(rate)],
                 refills |-> 0, granted |-> 0, sent |-> 0,
                 workers |-> [w \in 1 .. LimiterWorkers |-> [pc |-> "limiter", token |-> FALSE]]]

\* self.rate_limiter.until_ready().await returns: a cell was free and is taken
WorkerUntilReady(w) ==
    /\ pur.op = "limiter" /\ pur.workers[w].pc = "limiter"
    /\ pur.cells[ClientOf(w)] > 0
    /\ pur' = [pur EXCEPT !.cells[ClientOf(w)] = @ - 1, !.granted = @ + 1,
                          !.workers[w] = [pc |-> "send", token |-> TRUE]]
    /\ UNCHANGED <<cfg, chain, tip, store, meta, orch, task, inc, rpc>>

\* the first request of the call is sent; the call ends and the worker makes
\* its next call
WorkerRequest(w) ==
    /\ pur.op = "limiter" /\ pur.workers[w].pc = "send"
    /\ pur' = [pur EXCEPT !.sent = @ + 1,
                          !.workers[w] = [pc |-> "limiter", token |-> FALSE]]
    /\ UNCHANGED <<cfg, chain, tip, store, meta, orch, task, inc, rpc>>

\* time passes: every limiter that has a cell in use gets one back
LimiterRefill ==
    /\ pur.op = "limiter" /\ pur.refills < MaxRefills
    /\ \E k \in 1 .. LimiterWorkers : pur.cells[k] < pur.quota
    /\ pur' = [pur EXCEPT !.refills = @ + 1,
                          !.cells = [k \in 1 .. LimiterWorkers |->
                                        IF pur.cells[k] < pur.quota THEN pur.cells[k] + 1
                                        ELSE pur.cells[k]]]
    /\ UNCHANGED <<cfg, chain, tip, store, meta, orch, task, inc, rpc>>

SpecLimiter ==
    InitLimiter /\ [][LimiterRefill \/ \E w \in 1 .. LimiterWorkers :
                                          WorkerUntilReady(w) \/ WorkerRequest(w)]_vars

\* C30: every RPC call acquires a token from the client's rate limiter before
\* its first request is sent, blocking until one is available, and all
\* backfill workers draw from the same limiter because they share one client
\* instance: the first requests sent never outnumber the tokens handed out,
\* and the tokens handed out to all the workers together never outnumber the
\* cells of one limiter plus those time gave back.
C30_SharedLimiter ==
    pur.op = "limiter"
    => /\ \A w \in 1 .. LimiterWorkers : pur.workers[w].pc = "send" <=> pur.workers[w].token
       /\ pur.granted
          = pur.sent + Cardinality({w \in 1 .. LimiterWorkers : pur.workers[w].token})
       /\ pur.granted <= pur.quota + pur.refills
       /\ pur.cells[1] = 0 => \A w \in 1 .. LimiterWorkers : ~ENABLED WorkerUntilReady(w)

\* C30 witness: with a quota of one cell, a worker holds the token while the
\* others wait at the limiter, after earlier calls
C30_Witness ==
    /\ pur.op = "limiter" /\ pur.quota = 1 /\ pur.cells[1] = 0
    /\ pur.workers[1].pc = "limiter" /\ pur.workers[2].pc = "send"
    /\ pur.workers[3].pc = "limiter"
    /\ pur.sent >= 2 /\ pur.refills = MaxRefills

-----------------------------------------------------------------------------
(* C31: a checkpoint flushes before it advances *)

\* the events a worker parsed for the slots up to v, in the order it parsed them
ParsedUpTo(fetched, v) == SelectSeq(EventsFrom(fetched, 1), LAMBDA e : e.slot <= v)

\* what holds of a worker w that is about to call update_last_slot(v)
FlushedUpTo(w, v) ==
    /\ w.batch = <<>>
    /\ w.inserted = ParsedUpTo(w.fetched, v)
    /\ SeqToSet(w.inserted) \subseteq store

\* C31: in both orchestrators a checkpoint flushes before it advances: at each
\* update_last_slot(v) call the worker's in-memory batch is empty and every
\* event it parsed for slots <= v has been passed to an insert_events call
\* that succeeded.
C31_FlushBeforeAdvance ==
    /\ [](\A i \in DOMAIN task :
            /\ task[i].pc = "cp_cursor" => FlushedUpTo(task[i], task[i].slot - 1)
            /\ task[i].pc = "final_cursor" => FlushedUpTo(task[i], task[i].end_slot - 1))
    /\ [](/\ inc.pc = "cp_cursor" => FlushedUpTo(inc, inc.processed_slot - 1)
          /\ inc.pc = "final_cursor" => FlushedUpTo(inc, inc.chain_tip))
    /\ [][meta' # meta
          => \/ \E i \in DOMAIN task :
                   /\ task[i].pc \in {"cp_cursor", "final_cursor"}
                   /\ task'[i].writes = Append(task[i].writes, Cursor'.val)
                   /\ FlushedUpTo(task[i], Cursor'.val)
             \/ /\ inc.pc \in {"cp_cursor", "final_cursor"}
                /\ FlushedUpTo(inc, Cursor'.val)]_vars

\* C31 witness: a chunk worker whose batch limit was not reached stands at the
\* update_last_slot of a periodic checkpoint, the events of its slots flushed
\* by that checkpoint
C31_Witness ==
    /\ cfg.mode = "backfill" /\ cfg.batch_size = 3
    /\ \E i \in DOMAIN task :
          /\ task[i].pc = "cp_cursor"
          /\ task[i].slot < task[i].end_slot
          /\ task[i].inserted # <<>>
          /\ FlushedUpTo(task[i], task[i].slot - 1)

-----------------------------------------------------------------------------
(* C32: the backoff delays of rpc_call, under SpecRpc *)

\* C32: the delay before the k-th retry of an RPC call (k = 0, 1, 2, ...) is
\* exactly 2^k seconds for every retry index below the configured max_retries,
\* with no arithmetic overflow for any configurable max_retries value.
C32_BackoffExact ==
    /\ rpc.pc # "panicked"
    /\ \A k \in 0 .. rpc.max_retries - 1 :
          k + 1 <= Len(rpc.slept) => rpc.slept[k + 1] = 2 ^ k

\* what holds instead: the delays are exact as long as 2^k fits u64, and the
\* call never retries more than max_retries times
C32_BackoffExactWhileFits ==
    /\ Len(rpc.slept) = rpc.retries /\ rpc.retries <= rpc.max_retries
    /\ \A k \in 0 .. Len(rpc.slept) - 1 :
          2 ^ k <= U64Max => rpc.slept[k + 1] = 2 ^ k
    /\ rpc.pc = "panicked" => 2 ^ rpc.retries > U64Max /\ rpc.retries < rpc.max_retries

-----------------------------------------------------------------------------
(* C33: what process_chunk hands to insert_events *)

\* C33: when process_chunk returns Ok, the concatenation of all batches it
\* passed to insert_events equals, in order and with each event exactly once,
\* the concatenation of the parsed events of every slot it fetched and parsed
\* successfully: batch-size flushes, checkpoint flushes and the final flush
\* neither drop nor repeat an event.  While the chunk runs, the batches passed
\* so far followed by the pending batch are the events parsed so far.
C33_FlushesKeepEvents ==
    \A i \in DOMAIN task :
       /\ task[i].pc = "ok"
          => /\ task[i].inserted = EventsFrom(task[i].fetched, 1)
             /\ task[i].batch = <<>>
       /\ task[i].pc \notin {"failed", "panicked"}
          => task[i].inserted \o task[i].batch = EventsFrom(task[i].fetched, 1)

\* C33 witness: a chunk returned Ok after a batch-size flush and a later flush,
\* with a skipped or unparseable slot in between
C33_Witness ==
    \E i \in DOMAIN task :
       /\ task[i].pc = "ok"
       /\ Len(task[i].fetched) >= 3
       /\ Len(task[i].inserted) >= 2
       /\ \E s \in SeqToSet(task[i].fetched) : SlotEvents(s) = <<>>
       /\ cfg.batch_size = 1 /\ cfg.checkpoint_interval = 2

-----------------------------------------------------------------------------
(* C39: the keys of the events of one block, under SpecParse *)

\* the four fields event_id is computed from
EventKey(e) == <<e.slot, e.tx_signature, e.instruction_index, e.event_type>>

\* the transactions of the block that yield events carry pairwise distinct
\* signatures
DistinctSignatures(block) ==
    LET p == ParseableTransactions(block)
    IN  \A a, b \in 1 .. Len(p) :
           a # b => Head(p[a].transaction.val.signatures) # Head(p[b].transaction.val.signatures)

\* C39: within one parsed block whose transactions have distinct signatures,
\* no two events share the same (slot, tx_signature, instruction_index,
\* event_type) key, so no two distinct events of a block get the same event_id
\* and overwrite each other on upsert: inserting the block's events into an
\* empty table leaves one row per event.
C39_DistinctKeys ==
    \A c \in 1 .. Len(pur.out) :
       pur.out[c].ok /\ DistinctSignatures(pur.block)
       => LET ev == pur.out[c].val
          IN  /\ \A a, b \in 1 .. Len(ev) :
                    a # b => /\ EventKey(ev[a]) # EventKey(ev[b])
                             /\ ev[a].event_id # ev[b].event_id
              /\ Cardinality(InsertEvents({}, FlattenInstructions(ev))) = Len(ev)

\* C39 witness: a parsed block of two transactions with different signatures,
\* one of which has a token instruction and a token transfer with the same index
C39_Witness ==
    /\ pur.op = "parse" /\ Len(pur.out) >= 1 /\ pur.out[1].ok
    /\ Len(ParseableTransactions(pur.block)) = 2
    /\ DistinctSignatures(pur.block)
    /\ LET ev == pur.out[1].val
       IN  \E a, b \in 1 .. Len(ev) :
              /\ ev[a].tx_signature = ev[b].tx_signature
              /\ ev[a].instruction_index = ev[b].instruction_index
              /\ ev[a].event_type = "token_instruction"
              /\ ev[b].event_type = "token_transfer"

-----------------------------------------------------------------------------
(* C34: whole blocks in the store *)

\* C34: in every reachable store state, under any interleaving of workers and
\* any failure or crash, each slot is either absent from the store or present
\* with all the events parse_block produced for it: a batch always holds whole
\* blocks and is committed atomically, so is_slot_processed never reports a
\* partially stored slot as processed.
C34_WholeBlocksStored ==
    /\ \A s \in Slots :
          /\ RowsOfSlots(store, {s}) \in {{}, ExpectedRows({s})}
          /\ IsSlotProcessed(store, s) => RowsOfSlots(store, {s}) = SeqToSet(SlotEvents(s))
    /\ \A i \in DOMAIN task :
          task[i].pc \notin {"pending", "spawned"}
          => \E k \in 1 .. Len(task[i].fetched) + 1 :
                task[i].batch = EventsFrom(task[i].fetched, k)
    /\ inc.pc \notin {"idle", "init"}
       => \E k \in 1 .. Len(inc.fetched) + 1 : inc.batch = EventsFrom(inc.fetched, k)

\* C34 witness: a worker failed after it stored one block of several events
\* while another block of its chunk is not stored
C34_Witness ==
    \E i \in DOMAIN task :
       /\ task[i].pc = "failed"
       /\ \E s, u \in task[i].start_slot .. task[i].end_slot - 1 :
             /\ Cardinality(RowsOfSlots(store, {s})) >= 2
             /\ RowsOfSlots(store, {u}) = {} /\ SlotEvents(u) # <<>>

-----------------------------------------------------------------------------
(* C35: the cursor a backfill leaves behind *)

\* C35: after a backfill over [S, E) with several workers in which every chunk
\* succeeds, the persisted cursor equals E-1, whatever order the chunks finish
\* in.
C35_CursorAtEndOfRange ==
    /\ cfg.mode = "backfill" /\ cfg.workers >= 2
    /\ orch.pc = "returned" /\ orch.result = "ok"
    /\ task # <<>> /\ \A i \in DOMAIN task : task[i].pc = "ok"
    => Cursor = Some(cfg.end_slot - 1)

-----------------------------------------------------------------------------
(* C36: the incremental cursor never passes an unfetched slot *)

\* the cursor as process_incremental takes it: 0 when there is none
CursorOrZero == IF Cursor.some THEN Cursor.val ELSE 0

\* C36: across any sequence of incremental cycles, successful or failed, every
\* slot in (initial cursor, current cursor] has had its block fetched by some
\* cycle: the cursor never moves past a slot for which get_block was not
\* called and answered, and the next cycle always starts at cursor+1.
C36_NoSlotSkipped ==
    /\ [](cfg.mode = "incremental"
          => \A s \in Slots :
                (IF cfg.initial_cursor.some THEN cfg.initial_cursor.val ELSE 0) < s
                /\ s <= CursorOrZero
                => s \in inc.seen)
    /\ [][cfg.mode = "incremental" /\ inc.pc = "get_last_slot"
          /\ inc'.pc \in {"fetch", "flush", "cp_flush", "cp_cursor", "final_flush", "final_cursor"}
          => /\ inc'.start_slot = CursorOrZero + 1
             /\ inc'.processed_slot = CursorOrZero + 1]_vars
    /\ [](cfg.mode = "incremental" /\ inc.pc = "fetch" /\ inc.fetched = <<>>
          => inc.processed_slot = CursorOrZero + 1)

\* C36 witness: the cursor reached the tip three slots above the initial one
\* in a cycle that followed a failed cycle which had moved it part of the way
C36_Witness ==
    /\ cfg.mode = "incremental" /\ ~cfg.initial_cursor.some
    /\ inc.pc = "sleep" /\ inc.result = "ok"
    /\ Cursor = Some(MaxSlot)
    /\ inc.seen = 1 .. MaxSlot
    /\ Len(inc.fetched) < MaxSlot /\ inc.fetched # <<>>

-----------------------------------------------------------------------------
(* C37: schema initialization before the first query, under SpecPool.  A
   caller whose get_pool returned Ok (pc "done") runs its query on the pool it
   got; init_schema completed on the instance when a caller that connected
   came back from it with Ok. *)

SchemaInitialized ==
    \E d \in 1 .. MaxCallers : pur.callers[d].pc = "done" /\ pur.callers[d].mine # 0

\* C37: on a PostgresWarehouse instance, no sink query (event insert, cursor
\* read or write, slot check, health probe) runs before schema initialization
\* has completed successfully on that instance, including after an
\* initialization that failed and when calls on the instance overlap.
C37_SchemaBeforeQueries ==
    pur.op = "pool"
    => \A c \in 1 .. MaxCallers : pur.callers[c].pc = "done" => SchemaInitialized

-----------------------------------------------------------------------------
(* C38: limiter tokens and requests of one rpc_call, under SpecRpc *)

\* C38: every HTTP request the client sends, retries included, is preceded by
\* its own rate-limiter token acquisition, so at any time the number of
\* requests sent does not exceed the number of tokens consumed.
C38_TokenPerRequest ==
    rpc.pc # "idle" => rpc.requests <= rpc.tokens

\* what holds instead: one token per call, taken before the first request
C38_TokenPerCall ==
    rpc.pc # "idle"
    => /\ rpc.tokens = (IF rpc.pc = "limiter" THEN 0 ELSE 1)
       /\ rpc.requests > 0 => rpc.tokens = 1
       /\ rpc.pc \in {"send", "sleep", "done"} /\ rpc.requests > 0
          => rpc.requests \in {rpc.retries, rpc.retries + 1}

-----------------------------------------------------------------------------
(* SpecResume: the incremental loader started on a sink that holds no usable
   cursor: no row, or a row whose text is empty or has a character that is
   not a digit (written 10 here).  update_last_slot never writes such a text;
   it is what another writer of etl_metadata may leave. *)

InitResume ==
    /\ cfg \in {c \in IncrementalConfigs : ~c.initial_cursor.some /\ c.warehouse_type = "postgres"}
    /\ chain \in Chains
    /\ tip \in Slots
    /\ store = {}
    /\ meta \in {{}} \cup {{[key |-> CURSOR_KEY, value |-> v]} : v \in {<<>>, <<10>>, <<1, 10>>}}
    /\ orch = IdleOrch
    /\ task = <<>>
    /\ inc = NewProcess
    /\ pur = IdlePur
    /\ rpc = IdleRpc

SpecResume == InitResume /\ [][NextIncremental]_vars

\* the stored text, if any, does not read as an unsigned integer
NoUsableCursor ==
    \A r \in meta :
       r.key = CURSOR_KEY
       => r.value = <<>> \/ \E k \in 1 .. Len(r.value) : r.value[k] \notin 0 .. 9

\* C40: when get_last_slot returns none (cursor never set, or stored text not
\* parseable as an unsigned integer), process_incremental treats the cursor as
\* 0: with tip >= 1 it processes slots 1..tip and never fetches slot 0, and
\* with tip = 0 it does nothing.
C40_NoCursorMeansZero ==
    /\ [](NoUsableCursor => ~Cursor.some)
    /\ [][inc.pc = "get_last_slot" /\ inc'.pc # "get_last_slot" /\ inc'.result # "err"
          /\ NoUsableCursor
          => /\ inc'.last_slot = 0
             /\ IF inc.chain_tip = 0
                THEN inc'.pc = "sleep" /\ inc'.result = "ok" /\ inc'.fetched = <<>>
                ELSE /\ inc'.pc = "fetch"
                     /\ inc'.start_slot = 1 /\ inc'.processed_slot = 1
                     /\ inc'.end_slot = inc.chain_tip + 1]_vars
    /\ [](inc.pc \in {"fetch", "flush", "cp_flush", "cp_cursor", "final_flush", "final_cursor"}
          /\ inc.last_slot = 0
          => /\ \A k \in 1 .. Len(inc.fetched) : inc.fetched[k] = k
             /\ Len(inc.fetched) <= inc.chain_tip
             /\ inc.pc = "final_cursor" => Len(inc.fetched) = inc.chain_tip)
    /\ [](inc.pc = "sleep" /\ inc.result = "ok" /\ inc.chain_tip = 0
          => inc.fetched = <<>> /\ store = {} /\ NoUsableCursor)
    /\ [](\A k \in 1 .. Len(inc.fetched) : inc.fetched[k] # 0)

\* C40 witness: a cycle that found a text which is not a number fetched slot
\* 1 first and stands before slot 2, the text still in place
C40_Witness ==
    /\ \E r \in meta : r.key = CURSOR_KEY /\ r.value = <<1, 10>>
    /\ inc.pc = "fetch" /\ inc.chain_tip >= 2
    /\ inc.fetched = <<1>> /\ inc.processed_slot = 2

====
